---- MODULE Spec2Model ----
(***************************************************************************)
(* ComfyUI Deadline plugin (src/plugins/ComfyUI/ComfyUI.py): the task      *)
(* orchestration layer.  Two threads of the plugin share the tracking      *)
(* state without any lock:                                                 *)
(*   - the plugin's main thread, on which Deadline runs PreRenderTasks,    *)
(*     RenderArgument and the stdout handlers (HandleServerStarted,        *)
(*     HandleStdoutPromptExecuted);                                        *)
(*   - the thread started on submit_workflow, which queues the prompts of  *)
(*     the chunk and then polls the history endpoint.                      *)
(* The ComfyUI worker and the clock are the environment.                   *)
(***************************************************************************)
EXTENDS Naturals, Integers, Sequences, FiniteSets

\* ---------------------------------------------------------------- bounds
MaxChunk == 3
MaxForeign == 1

\* ------------------------------------------------------------- constants
\* Python's None for self.prompt_id; also the tag of a log line that belongs
\* to no prompt of this task.
NoPrompt == 0

Ids == 1..MaxChunk

\* What GET /history/<id> holds for a prompt:
\*   "absent"   no entry yet
\*   "outputs"  an entry with a non-empty 'outputs' field
\*   "empty"    an entry whose 'outputs' field is {}
\*   "error"    an entry without 'outputs' whose status.status is 'error'
HistKinds == {"absent", "outputs", "empty", "error"}
FinishKinds == {"outputs", "empty", "error"}

VARIABLES
    \* job configuration read through get_distributed_config_for_plugin
    worker_mode,            \* plugin info WorkerMode
    distributed_mode,       \* plugin info DistributedMode
    \* fields of the ComfyUI plugin object
    chunk_size,
    batch_mode,
    prompts_executed,
    prompt_ids,
    completed_prompts,
    current_tracking_index,
    prompt_id,
    task_completed,
    workflow_submitted,
    server_started,
    thread_running,
    use_existing_comfyui,
    \* what the Deadline host has been told
    fail_reasons,           \* reasons of the FailRender calls made so far
    signal_count,           \* calls of RepositoryUtils.CompleteTasks
    \* main thread
    main_pc,                \* "constructed" | "prerendered" | "running"
    out_pc,                 \* position inside HandleStdoutPromptExecuted
    o_tmp,                  \* prompts_executed as loaded by the handler's +=
    o_id,                   \* identifier the handler added to the set
    \* submit_workflow thread
    sub_pc,
    q_i,                    \* loop variable i of _queue_batch_prompts
    p_new,                  \* result of the test at line 1079
    p_tmp,                  \* prompts_executed as loaded by line 1081
    p_id,                   \* identifier added at line 1080
    m_timeout,              \* the loop was left because the ceiling passed
    \* the ComfyUI worker and its output stream
    w_accepted,             \* number of prompts accepted; their ids are 1..n
    w_done,                 \* number of prompts the worker has finished
    hist,                   \* history entry per prompt id
    logq,                   \* "Prompt executed" lines printed, not yet handled
    foreign_n,              \* lines printed for prompts of other clients
    \* observation only
    poll_credit,            \* per id: increments the poll channel made for it
    log_credit,             \* per id: increments the log channel made for it
    anon,                   \* increments the log channel made for no id
    submit_threads,         \* submit_workflow threads started so far
    \* progress reporting
    progress_value,         \* last percent given to SetProgress, <<num, den>>
    progress_input,         \* percent of the last in-progress signal, or -1
    \* port arbitration on one host
    listening,              \* the ports something accepts connections on
    inst,                   \* per Deadline worker process: its plugin object
    probe_errors,           \* the ports at which the probe's socket call raises
    \* seeding of the submitted workflows
    seed_mode,              \* plugin info SeedMode
    current_task_id,        \* GetCurrentTaskId()
    workflow_data,          \* the workflow as loaded, then as prepared
    prepared,               \* per prepared submission: what was done to it
    workflow_file,          \* the workflow as the job's file holds it
    job_seeds,              \* seeds sent by the tasks of the job that are over
    \* observation of the poll channel
    poll_failed,            \* the request of the last poll that failed
    poll_ignored,           \* the prompt whose entry the last poll left alone
    hist_error,             \* per id: the entry's status.status is 'error'
    \* pre-task setup
    setup_pc,               \* position inside PreRenderTasks
    output_dir,             \* the directory the outputs are to go to
    \* the job as submitted by DeadlineJobSubmitter, and its tasks
    job_config,             \* batch_count and chunk_size given to the submitter
    job_info,               \* Frames, ChunkSize and BatchMode of the job files
    frames_left,            \* frames of the job no task has been given yet
    task_frames,            \* frames of the task that is being set up
    prompts_queued,         \* prompts queued by the tasks of the job so far
    \* the placeholder process of a task that uses an existing instance
    elapsed,                \* seconds since RenderArgument returned
    dummy_exited            \* the script of _get_dummy_script has ended

cfg == <<worker_mode, distributed_mode>>
track == <<prompt_ids, completed_prompts, current_tracking_index, prompt_id>>
flags == <<chunk_size, batch_mode, workflow_submitted, server_started,
           use_existing_comfyui>>
host == <<fail_reasons, signal_count>>
outv == <<out_pc, o_tmp, o_id>>
subv == <<sub_pc, q_i, p_new, p_tmp, p_id, m_timeout>>
worker == <<w_accepted, w_done, hist, foreign_n>>
ghost == <<poll_credit, log_credit, anon, submit_threads>>

progress == <<progress_value, progress_input>>

\* The variables the completion tracking never touches.
ports == <<listening, inst, probe_errors>>
seeding == <<seed_mode, current_task_id, workflow_data, prepared,
             workflow_file, job_seeds>>
polling == <<poll_failed, poll_ignored, hist_error>>
submission == <<job_config, job_info, frames_left, task_frames,
                prompts_queued>>
placeholder == <<elapsed, dummy_exited>>
setup == <<setup_pc, output_dir, submission, placeholder>>
aux == <<progress, ports, seeding, polling, setup>>

core == <<cfg, track, flags, host, outv, subv, worker, ghost, logq,
          prompts_executed, task_completed, thread_running, main_pc>>

vars == <<core, aux>>

\* ------------------------------------------------------------------ Init
\* The plugin object after __init__ (_initialize_member_variables); the job
\* configuration and the occupancy of the base port are inputs.
\* InitTracking is the part every specification of this module starts from.
InitTracking ==
    /\ prompt_ids = <<>>
    /\ completed_prompts = {}
    /\ current_tracking_index = 0
    /\ prompt_id = NoPrompt
    /\ task_completed = FALSE
    /\ workflow_submitted = FALSE
    /\ server_started = FALSE
    /\ thread_running = TRUE
    /\ use_existing_comfyui = FALSE
    /\ fail_reasons = {}
    /\ signal_count = 0
    /\ out_pc = "idle"
    /\ o_tmp = 0
    /\ o_id = NoPrompt
    /\ sub_pc = "none"
    /\ q_i = 0
    /\ p_new = FALSE
    /\ p_tmp = 0
    /\ p_id = NoPrompt
    /\ m_timeout = FALSE
    /\ w_accepted = 0
    /\ w_done = 0
    /\ hist = [i \in Ids |-> "absent"]
    /\ logq = 0
    /\ foreign_n = 0
    /\ poll_credit = [i \in Ids |-> 0]
    /\ log_credit = [i \in Ids |-> 0]
    /\ anon = 0
    /\ submit_threads = 0

\* No progress has been reported yet (self.progress_value = 0).
InitProgressValue ==
    /\ progress_value = <<0, 1>>
    /\ progress_input = -1

\* No Deadline worker process of the host has been given a task.
InitPortsIdle ==
    /\ listening = {}
    /\ inst = <<>>
    /\ probe_errors = {}

\* No workflow has been loaded.
InitSeedingIdle ==
    /\ seed_mode = "fixed"
    /\ current_task_id = 0
    /\ workflow_data = <<>>
    /\ prepared = <<>>
    /\ workflow_file = <<>>
    /\ job_seeds = {}

\* No poll has failed.
InitPollingIdle ==
    /\ poll_failed = "none"
    /\ poll_ignored = NoPrompt
    /\ hist_error = [i \in Ids |-> FALSE]

\* The pre-task setup is not looked at: the output directory is there.
\* No job is followed from its submission on.
InitSubmissionIdle ==
    /\ job_config = <<>>
    /\ job_info = <<>>
    /\ frames_left = 0
    /\ task_frames = 0
    /\ prompts_queued = 0

\* No time has passed and no placeholder process has ended.
InitPlaceholderIdle ==
    /\ elapsed = 0
    /\ dummy_exited = FALSE

InitSetupIdle ==
    /\ setup_pc = "start"
    /\ output_dir = [kind |-> "comfyui", state |-> "present",
                     custom_output_dir_specified |-> FALSE]
    /\ InitSubmissionIdle
    /\ InitPlaceholderIdle

Init ==
    /\ worker_mode \in BOOLEAN
    /\ distributed_mode \in BOOLEAN
    /\ chunk_size = 1
    /\ batch_mode = FALSE
    /\ prompts_executed = 0
    /\ main_pc = "constructed"
    /\ InitTracking
    /\ InitProgressValue
    /\ InitPortsIdle
    /\ InitSeedingIdle
    /\ InitPollingIdle
    /\ InitSetupIdle

\* --------------------------------------------------------------- helpers
\* get_distributed_config_for_plugin followed by "worker_mode and
\* distributed_mode", the test _complete_task and the monitor loop make.
IsDistributedWorker == worker_mode /\ distributed_mode

\* The isolation test of _determine_final_port.
RequiresIsolation(force_new_instance) ==
    force_new_instance \/ worker_mode \/ distributed_mode

\* _move_to_next_prompt: the index after the increment, and the identifier
\* tracked afterwards (Python indexes prompt_ids from 0).
move_to_next_index(idx) == idx + 1

move_to_next_prompt(idx, ids) ==
    IF move_to_next_index(idx) < Len(ids)
    THEN ids[move_to_next_index(idx) + 1]
    ELSE NoPrompt

\* "if self.prompts_executed >= self.chunk_size" of both completion handlers.
AllPromptsCompleted(executed, size) == executed >= size

\* A variant of signal_task_completion that reports the task to the
\* scheduler in every role, the distributed-worker role included.
signal_task_completion_every_role(n) == n + 1

\* _complete_task and the monitor loop: the number of CompleteTasks calls
\* after a thread has found the task complete (none in keep-alive mode).
signal_task_completion(n) == IF IsDistributedWorker THEN n ELSE n + 1

\* The position of a thread that has found the task complete:
\* _enter_distributed_keep_alive_mode never returns.
AfterCompletion(pc) == IF IsDistributedWorker THEN "keepalive" ELSE pc

\* _check_for_missed_prompts, the loop over prompt_ids: the 0-based indexes
\* of the identifiers that are not counted and whose history entry has an
\* 'outputs' field.
MissedIndexes ==
    {i \in 0..(Len(prompt_ids) - 1) :
        /\ prompt_ids[i + 1] \notin completed_prompts
        /\ hist[prompt_ids[i + 1]] \in {"outputs", "empty"}}

FirstMissed == CHOOSE i \in MissedIndexes : \A j \in MissedIndexes : i <= j

\* ------------------------------------------------------- main thread
\* PreRenderTasks: _setup_batch_processing, _calculate_comfyui_port
\* (_determine_final_port), then task_completed = False.
PreRenderTasks ==
    /\ main_pc = "constructed"
    /\ main_pc' = "prerendered"
    /\ \E cfg_batch \in BOOLEAN, cfg_chunk \in 1..MaxChunk :
          /\ batch_mode' = cfg_batch
          /\ chunk_size' = IF cfg_batch THEN cfg_chunk ELSE 1
    /\ prompts_executed' = 0
    /\ \E force_new_instance \in BOOLEAN, port_busy \in BOOLEAN :
          LET reuse == ~RequiresIsolation(force_new_instance) /\ port_busy
          IN  /\ use_existing_comfyui' = reuse
              /\ server_started' = (server_started \/ reuse)
    /\ task_completed' = FALSE
    /\ UNCHANGED <<aux, cfg, track, workflow_submitted, host, outv, subv, worker,
                   ghost, logq, thread_running>>

\* A variant of RenderArgument that starts the submit_workflow thread for a
\* launched instance as well, without waiting for its server-start line.
RenderArgument_starting_thread ==
    /\ main_pc = "prerendered"
    /\ main_pc' = "running"
    /\ sub_pc' = "start"
    /\ submit_threads' = submit_threads + 1
    /\ UNCHANGED <<aux, cfg, track, flags, host, outv, q_i, p_new, p_tmp, p_id,
                   m_timeout, worker, poll_credit, log_credit, anon, logq,
                   prompts_executed, task_completed, thread_running>>

\* RenderArgument: with an existing instance _create_dummy_command starts
\* the submit_workflow thread; otherwise the worker process is launched.
RenderArgument ==
    /\ main_pc = "prerendered"
    /\ main_pc' = "running"
    /\ sub_pc' = IF use_existing_comfyui THEN "start" ELSE sub_pc
    /\ submit_threads' = IF use_existing_comfyui
                         THEN submit_threads + 1 ELSE submit_threads
    /\ UNCHANGED <<aux, cfg, track, flags, host, outv, q_i, p_new, p_tmp, p_id,
                   m_timeout, worker, poll_credit, log_credit, anon, logq,
                   prompts_executed, task_completed, thread_running>>

\* A variant of HandleServerStarted that marks the workflow as submitted
\* only when the first prompt is accepted (line 1007), not when it starts
\* the thread.
HandleServerStarted_marking_late ==
    /\ main_pc = "running"
    /\ out_pc = "idle"
    /\ thread_running
    /\ ~use_existing_comfyui
    /\ IF workflow_submitted
       THEN UNCHANGED <<server_started, sub_pc, submit_threads>>
       ELSE /\ server_started' = TRUE
            /\ sub_pc' = "start"
            /\ submit_threads' = submit_threads + 1
    /\ UNCHANGED <<aux, cfg, track, chunk_size, batch_mode, use_existing_comfyui,
                   workflow_submitted, host, outv, q_i, p_new, p_tmp, p_id,
                   m_timeout, worker, poll_credit, log_credit, anon, logq,
                   prompts_executed, task_completed, thread_running, main_pc>>

\* A line of the launched worker that matches one of the two server-start
\* patterns registered by _setup_stdout_handlers: HandleServerStarted.
HandleServerStarted ==
    /\ main_pc = "running"
    /\ out_pc = "idle"
    /\ thread_running
    /\ ~use_existing_comfyui
    /\ IF workflow_submitted
       THEN UNCHANGED <<server_started, workflow_submitted, sub_pc,
                        submit_threads>>
       ELSE /\ server_started' = TRUE
            /\ workflow_submitted' = TRUE
            /\ sub_pc' = "start"
            /\ submit_threads' = submit_threads + 1
    /\ UNCHANGED <<aux, cfg, track, chunk_size, batch_mode, use_existing_comfyui,
                   host, outv, q_i, p_new, p_tmp, p_id, m_timeout,
                   worker, poll_credit, log_credit, anon, logq,
                   prompts_executed, task_completed, thread_running, main_pc>>

\* Cleanup: thread_running = False and the handlers are deleted.
Cleanup ==
    /\ main_pc = "running"
    /\ out_pc = "idle"
    /\ thread_running
    /\ thread_running' = FALSE
    /\ UNCHANGED <<aux, cfg, track, flags, host, outv, subv, worker, ghost, logq,
                   prompts_executed, task_completed, main_pc>>

\* ------------------------------------------------- the ComfyUI worker
\* The worker finishes the oldest prompt of its queue: the history entry
\* appears, and a launched worker prints "Prompt executed in N seconds" on
\* the stream the plugin reads (with an existing instance the plugin reads
\* the placeholder process instead).
WorkerFinish ==
    /\ w_done < w_accepted
    /\ \E kind \in FinishKinds :
          hist' = [hist EXCEPT ![w_done + 1] = kind]
    /\ w_done' = w_done + 1
    /\ logq' = IF use_existing_comfyui THEN logq ELSE logq + 1
    /\ UNCHANGED <<aux, cfg, track, flags, host, outv, subv, w_accepted, foreign_n,
                   ghost, prompts_executed, task_completed, thread_running,
                   main_pc>>

\* A launched worker executes a prompt of another client and prints the
\* same line.
ForeignPromptLine ==
    /\ main_pc = "running"
    /\ ~use_existing_comfyui
    /\ server_started
    /\ foreign_n < MaxForeign
    /\ foreign_n' = foreign_n + 1
    /\ logq' = logq + 1
    /\ UNCHANGED <<aux, cfg, track, flags, host, outv, subv, w_accepted, w_done,
                   hist, ghost, prompts_executed, task_completed,
                   thread_running, main_pc>>

\* --------------------------------- main thread: "Prompt executed" lines
\* HandleStdoutPromptExecuted: the test "self.prompt_id and self.prompt_id
\* in self.completed_prompts".
HandleStdoutPromptExecuted ==
    /\ main_pc = "running"
    /\ out_pc = "idle"
    /\ thread_running
    /\ logq > 0
    /\ logq' = logq - 1
    /\ out_pc' = IF prompt_id # NoPrompt /\ prompt_id \in completed_prompts
                 THEN "idle" ELSE "o_add"
    /\ UNCHANGED <<aux, cfg, track, flags, host, o_tmp, o_id, subv, worker, ghost,
                   prompts_executed, task_completed, thread_running, main_pc>>

\* _handle_stdout_prompt_completion: "if self.prompt_id:
\* self.completed_prompts.add(self.prompt_id)" and the load of
\* "self.prompts_executed += 1".
handle_stdout_prompt_completion_add ==
    /\ out_pc = "o_add"
    /\ out_pc' = "o_store"
    /\ completed_prompts' = IF prompt_id # NoPrompt
                            THEN completed_prompts \cup {prompt_id}
                            ELSE completed_prompts
    /\ o_id' = prompt_id
    /\ o_tmp' = prompts_executed
    /\ UNCHANGED <<aux, cfg, prompt_ids, current_tracking_index, prompt_id, flags,
                   host, subv, worker, ghost, logq, prompts_executed,
                   task_completed, thread_running, main_pc>>

\* The store of "self.prompts_executed += 1".
handle_stdout_prompt_completion_store ==
    /\ out_pc = "o_store"
    /\ out_pc' = "o_fin"
    /\ prompts_executed' = o_tmp + 1
    /\ log_credit' = IF o_id # NoPrompt
                     THEN [log_credit EXCEPT ![o_id] = @ + 1] ELSE log_credit
    /\ anon' = IF o_id # NoPrompt THEN anon ELSE anon + 1
    /\ o_tmp' = 0
    /\ o_id' = NoPrompt
    /\ UNCHANGED <<aux, cfg, track, flags, host, subv, worker, poll_credit,
                   submit_threads, logq,
                   task_completed, thread_running, main_pc>>

\* The rest of _handle_stdout_prompt_completion: "if self.prompt_id:
\* self._move_to_next_prompt()", then _complete_task or _update_progress.
handle_stdout_prompt_completion_finish ==
    /\ out_pc = "o_fin"
    /\ IF prompt_id # NoPrompt
       THEN /\ current_tracking_index' =
                   move_to_next_index(current_tracking_index)
            /\ prompt_id' =
                   move_to_next_prompt(current_tracking_index, prompt_ids)
       ELSE UNCHANGED <<current_tracking_index, prompt_id>>
    /\ IF AllPromptsCompleted(prompts_executed, chunk_size)
       THEN /\ task_completed' = TRUE
            /\ signal_count' = signal_task_completion(signal_count)
            /\ out_pc' = AfterCompletion("idle")
       ELSE /\ out_pc' = "idle"
            /\ UNCHANGED <<task_completed, signal_count>>
    /\ UNCHANGED <<aux, cfg, prompt_ids, completed_prompts, flags, fail_reasons,
                   o_tmp, o_id, subv, worker, ghost, logq, prompts_executed,
                   thread_running, main_pc>>

\* ------------------------------------------- submit_workflow thread
\* submit_workflow up to queue_workflow: load_and_validate_workflow and
\* initialize_api_connection, each of which fails the render and ends the
\* thread when it does not succeed (http_request answers status 0 once
\* thread_running is cleared).
submit_workflow ==
    /\ sub_pc = "start"
    /\ \E outcome \in {"ok", "workflow", "api"} :
          /\ outcome = "ok" => thread_running
          /\ sub_pc' = IF outcome = "ok" THEN "queue0" ELSE "done"
          /\ fail_reasons' = IF outcome = "ok" THEN fail_reasons
                             ELSE fail_reasons \cup {outcome}
    /\ UNCHANGED <<aux, cfg, track, flags, signal_count, outv, q_i, p_new, p_tmp,
                   p_id, m_timeout, worker, ghost, logq, prompts_executed,
                   task_completed, thread_running, main_pc>>

\* A variant of queue_workflow that goes on to the monitor after a failed
\* submission of the initial prompt.
queue_workflow_unchecked ==
    /\ sub_pc = "queue0"
    /\ completed_prompts' = {}
    /\ current_tracking_index' = 0
    /\ \E ok \in BOOLEAN :
          /\ ok => thread_running
          /\ IF ok
             THEN /\ w_accepted' = w_accepted + 1
                  /\ prompt_id' = w_accepted + 1
                  /\ prompt_ids' = <<w_accepted + 1>>
                  /\ workflow_submitted' = TRUE
                  /\ sub_pc' = IF batch_mode /\ chunk_size > 1
                               THEN "batch" ELSE "monitor"
                  /\ q_i' = 1
                  /\ UNCHANGED fail_reasons
             ELSE /\ fail_reasons' = fail_reasons \cup {"queue"}
                  /\ prompt_ids' = <<>>
                  /\ sub_pc' = "monitor"
                  /\ UNCHANGED <<w_accepted, prompt_id, workflow_submitted,
                                 q_i>>
    /\ UNCHANGED <<aux, cfg, chunk_size, batch_mode, server_started,
                   use_existing_comfyui, signal_count, outv, p_new, p_tmp,
                   p_id, m_timeout, w_done, hist, foreign_n, ghost, logq,
                   prompts_executed, task_completed, thread_running, main_pc>>

\* queue_workflow: _reset_prompt_tracking and _queue_single_prompt.
queue_workflow ==
    /\ sub_pc = "queue0"
    /\ completed_prompts' = {}
    /\ current_tracking_index' = 0
    /\ \E ok \in BOOLEAN :
          /\ ok => thread_running
          /\ IF ok
             THEN /\ w_accepted' = w_accepted + 1
                  /\ prompt_id' = w_accepted + 1
                  /\ prompt_ids' = <<w_accepted + 1>>
                  /\ workflow_submitted' = TRUE
                  /\ sub_pc' = IF batch_mode /\ chunk_size > 1
                               THEN "batch" ELSE "monitor"
                  /\ q_i' = 1
                  /\ UNCHANGED fail_reasons
             ELSE /\ fail_reasons' = fail_reasons \cup {"queue"}
                  /\ prompt_ids' = <<>>
                  /\ sub_pc' = "done"
                  /\ UNCHANGED <<w_accepted, prompt_id, workflow_submitted,
                                 q_i>>
    /\ UNCHANGED <<aux, cfg, chunk_size, batch_mode, server_started,
                   use_existing_comfyui, signal_count, outv, p_new, p_tmp,
                   p_id, m_timeout, w_done, hist, foreign_n, ghost, logq,
                   prompts_executed, task_completed, thread_running, main_pc>>

\* _queue_batch_prompts: one pass of "for i in range(1, self.chunk_size)".
\* The POST is answered 200 ("ok"), is answered with another status or is
\* skipped by http_request because thread_running is cleared ("rejected":
\* the loop breaks and queue_workflow returns True), or http_request raises
\* because no HTTP answer came ("raised": the except clause of
\* queue_workflow fails the render and submit_workflow returns).
queue_batch_prompts ==
    /\ sub_pc = "batch"
    /\ \E outcome \in {"ok", "rejected", "raised"} :
          /\ outcome # "rejected" => thread_running
          /\ IF outcome = "ok"
             THEN /\ w_accepted' = w_accepted + 1
                  /\ prompt_ids' = Append(prompt_ids, w_accepted + 1)
                  /\ q_i' = q_i + 1
                  /\ sub_pc' = IF q_i + 1 < chunk_size
                               THEN "batch" ELSE "monitor"
                  /\ UNCHANGED fail_reasons
             ELSE /\ sub_pc' = IF outcome = "rejected"
                               THEN "monitor" ELSE "done"
                  /\ fail_reasons' = IF outcome = "rejected"
                                     THEN fail_reasons
                                     ELSE fail_reasons \cup {"queue_raised"}
                  /\ UNCHANGED <<w_accepted, prompt_ids, q_i>>
    /\ UNCHANGED <<aux, cfg, completed_prompts, current_tracking_index, prompt_id,
                   flags, signal_count, outv, p_new, p_tmp, p_id, m_timeout,
                   w_done, hist, foreign_n, ghost, logq, prompts_executed,
                   task_completed, thread_running, main_pc>>

\* monitor_workflow_execution before the loop: "if self.prompt_ids:
\* self.prompt_id = self.prompt_ids[0]".
monitor_workflow_execution ==
    /\ sub_pc = "monitor"
    /\ sub_pc' = "loop"
    /\ prompt_id' = IF prompt_ids # <<>> THEN prompt_ids[1] ELSE prompt_id
    /\ m_timeout' = FALSE
    /\ UNCHANGED <<aux, cfg, prompt_ids, completed_prompts, current_tracking_index,
                   flags, host, outv, q_i, p_new, p_tmp, p_id, worker, ghost,
                   logq, prompts_executed, task_completed, thread_running,
                   main_pc>>

\* The loop condition fails because DEFAULT_TIMEOUT seconds have passed.
monitor_timeout ==
    /\ sub_pc = "loop"
    /\ sub_pc' = "after"
    /\ m_timeout' = TRUE
    /\ UNCHANGED <<aux, cfg, track, flags, host, outv, q_i, p_new, p_tmp, p_id,
                   worker, ghost, logq, prompts_executed, task_completed,
                   thread_running, main_pc>>

\* The loop condition fails because thread_running is cleared.
monitor_stopped ==
    /\ sub_pc = "loop"
    /\ ~thread_running
    /\ sub_pc' = "after"
    /\ UNCHANGED <<aux, cfg, track, flags, host, outv, q_i, p_new, p_tmp, p_id,
                   m_timeout, worker, ghost, logq, prompts_executed,
                   task_completed, thread_running, main_pc>>

\* "if self.task_completed:" at the head of the loop body: signal (or keep
\* alive) and return True.
monitor_task_completed ==
    /\ sub_pc = "loop"
    /\ thread_running
    /\ task_completed
    /\ signal_count' = signal_task_completion(signal_count)
    /\ sub_pc' = AfterCompletion("done")
    /\ UNCHANGED <<aux, cfg, track, flags, fail_reasons, outv, q_i, p_new, p_tmp,
                   p_id, m_timeout, worker, ghost, logq, prompts_executed,
                   task_completed, thread_running, main_pc>>

\* A variant in which the loop goes on polling after thread_running is
\* cleared.
PollGuard_ignoring_flag ==
    /\ sub_pc = "loop"
    /\ ~task_completed
    /\ prompt_id # NoPrompt

\* The monitor loop is about to poll the tracked prompt: the loop condition
\* holds and http_request does not skip the request.
PollGuard ==
    /\ sub_pc = "loop"
    /\ thread_running
    /\ ~task_completed
    /\ prompt_id # NoPrompt

\* _poll_prompt_status without effect: the request fails (non-200 answer,
\* exception, status 0), the entry is absent, or its 'outputs' are empty.
poll_prompt_status_nothing ==
    /\ PollGuard
    /\ \E ok \in BOOLEAN : ok => hist[prompt_id] \in {"absent", "empty"}
    /\ UNCHANGED vars

\* _poll_prompt_status -> process_history_data -> _handle_prompt_completion
\* up to the test "self.prompt_id not in self.completed_prompts".
handle_prompt_completion ==
    /\ PollGuard
    /\ hist[prompt_id] = "outputs"
    /\ p_new' = (prompt_id \notin completed_prompts)
    /\ sub_pc' = "p_add"
    /\ UNCHANGED <<aux, cfg, track, flags, host, outv, q_i, p_tmp, p_id, m_timeout,
                   worker, ghost, logq, prompts_executed, task_completed,
                   thread_running, main_pc>>

\* "self.completed_prompts.add(self.prompt_id)" and the load of
\* "self.prompts_executed += 1", when the test succeeded.
handle_prompt_completion_add ==
    /\ sub_pc = "p_add"
    /\ IF p_new
       THEN /\ completed_prompts' = completed_prompts \cup {prompt_id}
            /\ p_id' = prompt_id
            /\ p_tmp' = prompts_executed
            /\ sub_pc' = "p_store"
       ELSE /\ sub_pc' = "p_check"
            /\ UNCHANGED <<completed_prompts, p_id, p_tmp>>
    /\ UNCHANGED <<aux, cfg, prompt_ids, current_tracking_index, prompt_id, flags,
                   host, outv, q_i, p_new, m_timeout, worker, ghost, logq,
                   prompts_executed, task_completed, thread_running, main_pc>>

\* The store of "self.prompts_executed += 1".
handle_prompt_completion_store ==
    /\ sub_pc = "p_store"
    /\ sub_pc' = "p_check"
    /\ prompts_executed' = p_tmp + 1
    /\ poll_credit' = IF p_id # NoPrompt
                      THEN [poll_credit EXCEPT ![p_id] = @ + 1]
                      ELSE poll_credit
    /\ anon' = IF p_id # NoPrompt THEN anon ELSE anon + 1
    /\ p_tmp' = 0
    /\ p_id' = NoPrompt
    /\ p_new' = FALSE
    /\ UNCHANGED <<aux, cfg, track, flags, host, outv, q_i, m_timeout, worker,
                   log_credit, submit_threads, logq, task_completed,
                   thread_running,
                   main_pc>>

\* The rest of _handle_prompt_completion: _complete_task and "return True"
\* (the loop breaks), or _move_to_next_prompt and _update_progress.
handle_prompt_completion_finish ==
    /\ sub_pc = "p_check"
    /\ IF AllPromptsCompleted(prompts_executed, chunk_size)
       THEN /\ task_completed' = TRUE
            /\ signal_count' = signal_task_completion(signal_count)
            /\ sub_pc' = AfterCompletion("after")
            /\ UNCHANGED <<current_tracking_index, prompt_id>>
       ELSE /\ current_tracking_index' =
                   move_to_next_index(current_tracking_index)
            /\ prompt_id' =
                   move_to_next_prompt(current_tracking_index, prompt_ids)
            /\ sub_pc' = "loop"
            /\ UNCHANGED <<task_completed, signal_count>>
    /\ UNCHANGED <<aux, cfg, prompt_ids, completed_prompts, flags, fail_reasons,
                   outv, q_i, p_new, p_tmp, p_id, m_timeout, worker, ghost,
                   logq, prompts_executed, thread_running, main_pc>>

\* _poll_prompt_status -> process_history_data -> _handle_prompt_status ->
\* _handle_prompt_error.
handle_prompt_error ==
    /\ PollGuard
    /\ hist[prompt_id] = "error"
    /\ IF chunk_size > 1
       THEN /\ completed_prompts' = completed_prompts \cup {prompt_id}
            /\ current_tracking_index' =
                   move_to_next_index(current_tracking_index)
            /\ prompt_id' =
                   move_to_next_prompt(current_tracking_index, prompt_ids)
            /\ UNCHANGED <<fail_reasons, sub_pc>>
       ELSE /\ fail_reasons' = fail_reasons \cup {"prompt_error"}
            /\ sub_pc' = "after"
            /\ UNCHANGED <<completed_prompts, current_tracking_index,
                           prompt_id>>
    /\ UNCHANGED <<aux, cfg, prompt_ids, flags, signal_count, outv, q_i, p_new,
                   p_tmp, p_id, m_timeout, worker, ghost, logq,
                   prompts_executed, task_completed, thread_running, main_pc>>

\* _check_for_missed_prompts, run when no prompt is tracked.
check_for_missed_prompts ==
    /\ sub_pc = "loop"
    /\ thread_running
    /\ ~task_completed
    /\ prompt_id = NoPrompt
    /\ \E ok \in BOOLEAN :
          IF ok /\ ~AllPromptsCompleted(prompts_executed, chunk_size)
                /\ MissedIndexes # {}
          THEN /\ prompt_id' = prompt_ids[FirstMissed + 1]
               /\ current_tracking_index' = FirstMissed
          ELSE UNCHANGED <<prompt_id, current_tracking_index>>
    /\ UNCHANGED <<aux, cfg, prompt_ids, completed_prompts, flags, host, outv,
                   subv, worker, ghost, logq, prompts_executed,
                   task_completed, thread_running, main_pc>>

\* monitor_workflow_execution after the loop: the timeout check, then the
\* second "if self.task_completed:".
monitor_after_loop ==
    /\ sub_pc = "after"
    /\ \E late \in BOOLEAN :
          /\ m_timeout => late
          /\ IF ~task_completed /\ late
             THEN /\ fail_reasons' = fail_reasons \cup {"timeout"}
                  /\ sub_pc' = "done"
                  /\ UNCHANGED signal_count
             ELSE IF task_completed
             THEN /\ signal_count' = signal_task_completion(signal_count)
                  /\ sub_pc' = AfterCompletion("done")
                  /\ UNCHANGED fail_reasons
             ELSE /\ sub_pc' = "done"
                  /\ UNCHANGED <<fail_reasons, signal_count>>
    /\ UNCHANGED <<aux, cfg, track, flags, outv, q_i, p_new, p_tmp, p_id,
                   m_timeout, worker, ghost, logq, prompts_executed,
                   task_completed, thread_running, main_pc>>

\* ------------------------------------------------------------------ Spec
Next ==
    \/ PreRenderTasks
    \/ RenderArgument
    \/ HandleServerStarted
    \/ WorkerFinish
    \/ HandleStdoutPromptExecuted
    \/ handle_stdout_prompt_completion_add
    \/ handle_stdout_prompt_completion_store
    \/ handle_stdout_prompt_completion_finish
    \/ submit_workflow
    \/ queue_workflow
    \/ queue_batch_prompts
    \/ monitor_workflow_execution
    \/ monitor_timeout
    \/ monitor_task_completed
    \/ poll_prompt_status_nothing
    \/ handle_prompt_completion
    \/ handle_prompt_completion_add
    \/ handle_prompt_completion_store
    \/ handle_prompt_completion_finish
    \/ handle_prompt_error
    \/ check_for_missed_prompts
    \/ monitor_after_loop

Spec == Init /\ [][Next]_vars

\* A task in the distributed-worker role (WorkerMode and DistributedMode
\* both set): its worker also executes the prompts a master sends it.
InitDistributedWorker == Init /\ worker_mode /\ distributed_mode

NextDistributedWorker == Next \/ ForeignPromptLine

SpecDistributedWorker ==
    InitDistributedWorker /\ [][NextDistributedWorker]_vars

\* ------------------------------------------------------ progress reports
\* Percents are kept as exact fractions <<num, den>>.
FullPercent == 100
Percents == 0..FullPercent

FracLeq(a, b) == a[1] * b[2] <= b[1] * a[2]
FracEq(a, b) == a[1] * b[2] = b[1] * a[2]

\* Python's min(a, b): the first argument unless the second is smaller.
PyMin(a, b) == IF FracLeq(a, b) THEN a ELSE b

\* The "if self.chunk_size > 1" branch of the three progress handlers:
\* completed_progress + current_contribution capped at 99, or 100.
overall_progress(executed, size, percent) ==
    IF executed < size
    THEN PyMin(<<99, 1>>, <<executed * 100 + percent, size>>)
    ELSE <<100, 1>>

\* What a progress handler gives to SetProgress.
reported_progress(executed, size, percent) ==
    IF size > 1
    THEN overall_progress(executed, size, percent)
    ELSE <<percent, 1>>

\* A task in the middle of its chunk: chunk_size prompts, some of them
\* counted, the worker printing progress lines and answering polls.
InitProgress ==
    /\ worker_mode = FALSE
    /\ distributed_mode = FALSE
    /\ chunk_size \in 1..MaxChunk
    /\ batch_mode = (chunk_size > 1)
    /\ prompts_executed \in 0..chunk_size
    /\ main_pc = "running"
    /\ InitTracking
    /\ InitProgressValue
    /\ InitPortsIdle
    /\ InitSeedingIdle
    /\ InitPollingIdle
    /\ InitSetupIdle

\* HandleStdoutProgressBar: a line "  4%|4   | 1/25 [...]".
HandleStdoutProgressBar ==
    /\ main_pc = "running"
    /\ \E percent \in Percents :
          /\ progress_value' =
                 reported_progress(prompts_executed, chunk_size, percent)
          /\ progress_input' = percent
    /\ UNCHANGED <<core, ports, seeding, polling, setup>>

\* HandleStdoutProgressPercent: a line "Progress: 45.5%".
HandleStdoutProgressPercent ==
    /\ main_pc = "running"
    /\ \E percent \in Percents :
          /\ progress_value' =
                 reported_progress(prompts_executed, chunk_size, percent)
          /\ progress_input' = percent
    /\ UNCHANGED <<core, ports, seeding, polling, setup>>

\* _update_execution_progress: status.exec_info.progress of the polled
\* prompt, a fraction of 1 turned into a percent.
update_execution_progress ==
    /\ main_pc = "running"
    /\ \E percent \in Percents :
          /\ progress_value' =
                 reported_progress(prompts_executed, chunk_size, percent)
          /\ progress_input' = percent
    /\ UNCHANGED <<core, ports, seeding, polling, setup>>

NextProgress ==
    \/ HandleStdoutProgressBar
    \/ HandleStdoutProgressPercent
    \/ update_execution_progress

SpecProgress == InitProgress /\ [][NextProgress]_vars

\* ------------------------------------------------------ port arbitration
MaxGpu == 1
MaxTaskId == 1

DEFAULT_PORT == 8188
PORT_OFFSET_PER_GPU == 100
MAX_PORT_SEARCH_RANGE == 100
WORKER_PORT_OFFSET == 100
DEFAULT_TASK_ID == 1

\* cuda_device_id is None.
NoGpu == -1
\* os.environ has no DEADLINE_TASK_ID; it holds text int() rejects.
EnvUnset == -2
EnvUnparsable == -1
\* self.comfyui_port before _calculate_comfyui_port has run.
NoPort == 0

GpuIds == 0..MaxGpu
TaskIds == 0..MaxTaskId
Procs == 1..2

\* The (WorkerMode, DistributedMode, ForceNewInstance) settings of a job.
Roles ==
    {[worker_mode |-> w, distributed_mode |-> d, force_new_instance |-> f] :
        w \in BOOLEAN, d \in BOOLEAN, f \in BOOLEAN}

\* _calculate_comfyui_port: the configured port shifted by the CUDA device.
base_port(cuda_device_id) ==
    IF cuda_device_id # NoGpu
    THEN DEFAULT_PORT + cuda_device_id * PORT_OFFSET_PER_GPU
    ELSE DEFAULT_PORT

\* _calculate_worker_port: int(os.environ.get('DEADLINE_TASK_ID', '1')),
\* with the ValueError fallback.
calculate_worker_port(base, env_task_id) ==
    IF env_task_id = EnvUnparsable
    THEN base + WORKER_PORT_OFFSET
    ELSE base + WORKER_PORT_OFFSET
              + (IF env_task_id = EnvUnset THEN DEFAULT_TASK_ID
                                           ELSE env_task_id)

\* A variant of _is_port_in_use whose except clause answers True.
Connectable_or_raising(bound, failing) == bound \cup failing

\* The ports at which _is_port_in_use answers True: something accepts the
\* connection (connect_ex returns 0) and nothing raises; the bare except
\* clause answers False.
Connectable(bound, failing) == bound \ failing

\* _is_port_in_use: connect_ex to 127.0.0.1:port succeeds.
is_port_in_use(port, bound) == port \in bound

\* The while loop of _find_available_port from position port on.
RECURSIVE scan_ports(_, _, _, _)
scan_ports(port, max_port, start_port, bound) ==
    IF port < max_port
    THEN IF ~is_port_in_use(port, bound)
         THEN port
         ELSE scan_ports(port + 1, max_port, start_port, bound)
    ELSE start_port

find_available_port(start_port, bound) ==
    scan_ports(start_port, start_port + MAX_PORT_SEARCH_RANGE, start_port,
               bound)

\* The port _find_available_port is started from, or the port probed for an
\* existing instance: what the role, the device and the task id determine.
candidate_port(role, cuda_device_id, env_task_id) ==
    IF role.worker_mode \/ role.distributed_mode
    THEN calculate_worker_port(base_port(cuda_device_id), env_task_id)
    ELSE base_port(cuda_device_id)

\* A variant of _determine_final_port that adopts whatever listens on the
\* port the search would start from, isolation flags or not.
determine_final_port_reuse_first(role, cuda_device_id, env_task_id, bound) ==
    LET start == candidate_port(role, cuda_device_id, env_task_id)
    IN  IF is_port_in_use(start, bound)
        THEN <<start, TRUE>>
        ELSE <<find_available_port(start, bound), FALSE>>

\* _determine_final_port: <<comfyui_port, use_existing_comfyui>>.
determine_final_port(role, cuda_device_id, env_task_id, bound) ==
    LET start == candidate_port(role, cuda_device_id, env_task_id)
    IN  IF role.force_new_instance \/ role.worker_mode
            \/ role.distributed_mode
        THEN <<find_available_port(start, bound), FALSE>>
        ELSE IF is_port_in_use(start, bound)
             THEN <<start, TRUE>>
             ELSE <<find_available_port(start, bound), FALSE>>

\* Listeners that are there before any task starts: single ports, or a
\* whole search range.
ExternalSingles ==
    {DEFAULT_PORT, DEFAULT_PORT + WORKER_PORT_OFFSET,
     DEFAULT_PORT + WORKER_PORT_OFFSET + DEFAULT_TASK_ID}

SearchRange(start_port) == start_port..(start_port + MAX_PORT_SEARCH_RANGE - 1)

Occupancies ==
    (SUBSET ExternalSingles) \cup {SearchRange(s) : s \in ExternalSingles}

\* A Deadline worker process that has loaded the plugin and run no task.
FreshInstances ==
    [role : Roles,
     cuda_device_id : GpuIds \cup {NoGpu},
     env_task_id : {EnvUnset, EnvUnparsable},
     task_id : {0},
     pc : {"idle"},
     start_port : {NoPort},
     comfyui_port : {NoPort},
     use_existing_comfyui : {FALSE},
     launched : {"none"},
     bound : {FALSE}]

\* One Deadline worker process on the host.
InitPort ==
    /\ worker_mode = FALSE
    /\ distributed_mode = FALSE
    /\ chunk_size = 1
    /\ batch_mode = FALSE
    /\ prompts_executed = 0
    /\ main_pc = "constructed"
    /\ InitTracking
    /\ InitProgressValue
    /\ InitSeedingIdle
    /\ InitPollingIdle
    /\ InitSetupIdle
    /\ listening \in Occupancies
    /\ inst \in [{1} -> FreshInstances]
    /\ probe_errors = {}

\* PreRenderTasks of the next task of process p: _calculate_comfyui_port.
\* The probes see the listeners of this moment.
calculate_comfyui_port_of(p) ==
    /\ inst[p].pc = "idle"
    /\ \E t \in TaskIds :
          LET me == inst[p]
              final == determine_final_port(me.role, me.cuda_device_id,
                                            me.env_task_id,
                                            Connectable(listening,
                                                        probe_errors))
          IN  inst' = [inst EXCEPT ![p] =
                  [me EXCEPT !.task_id = t,
                             !.pc = "prerendered",
                             !.start_port =
                                 candidate_port(me.role, me.cuda_device_id,
                                                me.env_task_id),
                             !.comfyui_port = final[1],
                             !.use_existing_comfyui = final[2]]]
    /\ UNCHANGED <<core, progress, seeding, polling, setup, listening,
                   probe_errors>>

\* RenderExecutable: _set_deadline_environment_variables stores the id of
\* the current task in os.environ.
RenderExecutable_of(p) ==
    /\ inst[p].pc = "prerendered"
    /\ inst' = [inst EXCEPT ![p] =
            [@ EXCEPT !.pc = "executable",
                      !.env_task_id = inst[p].task_id]]
    /\ UNCHANGED <<core, progress, seeding, polling, setup, listening,
                   probe_errors>>

\* RenderArgument with an existing instance: the placeholder command.
create_dummy_command_of(p) ==
    /\ inst[p].pc = "executable"
    /\ inst[p].use_existing_comfyui
    /\ inst' = [inst EXCEPT ![p] =
            [@ EXCEPT !.pc = "running", !.launched = "dummy"]]
    /\ UNCHANGED <<core, progress, seeding, polling, setup, listening,
                   probe_errors>>

\* RenderArgument otherwise: ComfyUI's main.py is launched with
\* --port comfyui_port.
build_comfyui_arguments_of(p) ==
    /\ inst[p].pc = "executable"
    /\ ~inst[p].use_existing_comfyui
    /\ inst' = [inst EXCEPT ![p] =
            [@ EXCEPT !.pc = "starting", !.launched = "worker"]]
    /\ UNCHANGED <<core, progress, seeding, polling, setup, listening,
                   probe_errors>>

\* The launched server binds its port, unless something holds it already.
server_binds_of(p) ==
    /\ inst[p].pc = "starting"
    /\ LET free == ~is_port_in_use(inst[p].comfyui_port, listening)
       IN  /\ inst' = [inst EXCEPT ![p] =
                   [@ EXCEPT !.pc = "running", !.bound = free]]
           /\ listening' = IF free
                           THEN listening \cup {inst[p].comfyui_port}
                           ELSE listening
    /\ UNCHANGED <<core, progress, seeding, polling, setup, probe_errors>>

\* The task ends: Deadline stops the process tree, the port is released,
\* and the worker process waits for its next task.
end_task_of(p) ==
    /\ inst[p].pc = "running"
    /\ listening' = IF inst[p].bound
                    THEN listening \ {inst[p].comfyui_port}
                    ELSE listening
    /\ inst' = [inst EXCEPT ![p] =
            [@ EXCEPT !.pc = "idle", !.launched = "none", !.bound = FALSE]]
    /\ UNCHANGED <<core, progress, seeding, polling, setup, probe_errors>>

calculate_comfyui_port == \E p \in DOMAIN inst : calculate_comfyui_port_of(p)
RenderExecutable == \E p \in DOMAIN inst : RenderExecutable_of(p)
create_dummy_command == \E p \in DOMAIN inst : create_dummy_command_of(p)
build_comfyui_arguments ==
    \E p \in DOMAIN inst : build_comfyui_arguments_of(p)
server_binds == \E p \in DOMAIN inst : server_binds_of(p)
end_task == \E p \in DOMAIN inst : end_task_of(p)

NextPort ==
    \/ calculate_comfyui_port
    \/ RenderExecutable
    \/ create_dummy_command
    \/ build_comfyui_arguments
    \/ server_binds
    \/ end_task

SpecPort == InitPort /\ [][NextPort]_vars

\* The settings with at most one of the three flags set.
SingleFlagRoles ==
    {r \in Roles :
        Cardinality({f \in {"w", "d", "f"} :
                        \/ f = "w" /\ r.worker_mode
                        \/ f = "d" /\ r.distributed_mode
                        \/ f = "f" /\ r.force_new_instance}) <= 1}

HostSingles ==
    {DEFAULT_PORT, DEFAULT_PORT + WORKER_PORT_OFFSET + DEFAULT_TASK_ID}

\* Two Deadline worker processes on one host, each with its own plugin
\* object and its own os.environ.
InitHost ==
    /\ worker_mode = FALSE
    /\ distributed_mode = FALSE
    /\ chunk_size = 1
    /\ batch_mode = FALSE
    /\ prompts_executed = 0
    /\ main_pc = "constructed"
    /\ InitTracking
    /\ InitProgressValue
    /\ InitSeedingIdle
    /\ InitPollingIdle
    /\ InitSetupIdle
    /\ listening \in SUBSET HostSingles
    /\ probe_errors = {}
    /\ inst \in [Procs -> {i \in FreshInstances :
                              /\ i.role \in SingleFlagRoles
                              /\ i.env_task_id = EnvUnset}]

SpecHost == InitHost /\ [][NextPort]_vars

\* ---------------------------------------------------------------- seeds
MaxSeed == 2
MAX_SEED_VALUE == 2147483647

Seeds == 0..MaxSeed
SeedModes == {"fixed", "auto", "change"}
\* control_after_generate of the node that carries the seed; "missing" is
\* an absent key, "other" any text the code does not know.
ControlModes ==
    {"fixed", "increment", "decrement", "randomize", "missing", "other"}
\* Values random.randint(0, MAX_SEED_VALUE) may return.
RandomDraws == {0, MAX_SEED_VALUE}

\* Python's max(a, b).
PyMax(a, b) == IF a >= b THEN a ELSE b

\* A variant of _calculate_new_seed whose decrement has no floor at 0.
calculate_new_seed_unclamped(original_seed, task_id, mode, control) ==
    IF mode = "auto"
    THEN CASE control = "fixed" -> {original_seed}
           [] control = "decrement" -> {original_seed - task_id}
           [] control = "randomize" -> RandomDraws
           [] OTHER -> {original_seed + task_id}
    ELSE RandomDraws

\* _calculate_new_seed: the values it may return (one, unless it draws a
\* random seed).  inputs.get("control_after_generate", "increment") turns
\* "missing" into "increment".
calculate_new_seed(original_seed, task_id, mode, control) ==
    IF mode = "auto"
    THEN LET control_mode == IF control = "missing" THEN "increment"
                             ELSE control
         IN  CASE control_mode = "fixed" -> {original_seed}
               [] control_mode = "increment" -> {original_seed + task_id}
               [] control_mode = "decrement" ->
                      {PyMax(0, original_seed - task_id)}
               [] control_mode = "randomize" -> RandomDraws
               [] OTHER -> {original_seed + task_id}
    ELSE RandomDraws

\* modify_workflow_seeds: the seeds the workflow may carry afterwards
\* (SeedMode "fixed" returns before touching it).
modify_workflow_seeds(workflow, task_id, mode) ==
    IF mode = "fixed"
    THEN {workflow.seed}
    ELSE calculate_new_seed(workflow.seed, task_id, mode, workflow.control)

\* A variant of the test of load_and_validate_workflow that runs the
\* generic pass whether or not DeadlineSeed nodes were injected.
runs_generic_pass_always(deadline_seeds_injected) == TRUE

\* load_and_validate_workflow: "if not deadline_seeds_injected";
\* _queue_batch_prompts: the else branch of "if has_deadline_seeds".
runs_generic_pass(deadline_seeds_injected) == ~deadline_seeds_injected

\* A workflow graph: whether it has a DeadlineSeed node and the task_id
\* input of that node (-1: none), and the seed input of its sampler node
\* with that node's control_after_generate.
Workflows ==
    [has_deadline_seed : BOOLEAN,
     ds_task_id : {-1},
     seed : Seeds,
     control : ControlModes]

InitSeed ==
    /\ worker_mode = FALSE
    /\ distributed_mode = FALSE
    /\ batch_mode \in BOOLEAN
    /\ chunk_size \in IF batch_mode THEN 1..MaxChunk ELSE {1}
    /\ prompts_executed = 0
    /\ main_pc = "running"
    /\ InitTracking
    /\ InitProgressValue
    /\ InitPortsIdle
    /\ InitPollingIdle
    /\ InitSetupIdle
    /\ seed_mode \in SeedModes
    /\ current_task_id \in TaskIds
    /\ workflow_data \in Workflows
    /\ prepared = <<>>
    /\ workflow_file = workflow_data
    /\ job_seeds = {}

\* load_and_validate_workflow: inject_deadline_seed_parameters, then
\* modify_workflow_seeds with the task id unless nodes were injected.  The
\* result is the workflow of prompt 0.
load_and_validate_workflow ==
    /\ main_pc = "running"
    /\ prepared = <<>>
    /\ LET deadline_seeds_injected == workflow_data.has_deadline_seed
           generic == runs_generic_pass(deadline_seeds_injected)
       IN  \E new_seed \in
                 IF generic
                 THEN modify_workflow_seeds(workflow_data, current_task_id,
                                            seed_mode)
                 ELSE {workflow_data.seed} :
              /\ workflow_data' =
                     [workflow_data EXCEPT
                         !.ds_task_id = IF deadline_seeds_injected
                                        THEN current_task_id ELSE @,
                         !.seed = new_seed]
              /\ prepared' =
                     <<[workflow |-> workflow_data',
                        injected |-> deadline_seeds_injected,
                        generic |-> generic,
                        seed_before |-> workflow_data.seed,
                        offset |-> current_task_id]>>
    /\ UNCHANGED <<core, progress, ports, polling, setup, seed_mode,
                   current_task_id, workflow_file, job_seeds>>

\* A variant of _queue_batch_prompts without copy.deepcopy: every additional
\* prompt is prepared on workflow_data itself.
prepare_batch_prompt_in_place ==
    /\ main_pc = "running"
    /\ Len(prepared) >= 1
    /\ batch_mode /\ chunk_size > 1
    /\ Len(prepared) < chunk_size
    /\ LET i == Len(prepared)
           has_deadline_seeds == workflow_data.has_deadline_seed
           generic == runs_generic_pass(has_deadline_seeds)
                          /\ seed_mode # "fixed"
       IN  \E new_seed \in
                 IF generic
                 THEN modify_workflow_seeds(workflow_data, i, seed_mode)
                 ELSE {workflow_data.seed} :
              /\ workflow_data' =
                     [workflow_data EXCEPT
                         !.ds_task_id = IF has_deadline_seeds
                                        THEN @ + i ELSE @,
                         !.seed = new_seed]
              /\ prepared' = Append(prepared,
                     [workflow |-> workflow_data',
                      injected |-> has_deadline_seeds,
                      generic |-> generic,
                      seed_before |-> workflow_data.seed,
                      offset |-> i])
    /\ UNCHANGED <<core, progress, ports, polling, setup, seed_mode,
                   current_task_id, workflow_file, job_seeds>>

\* _queue_batch_prompts, the preparation of additional prompt i: a deep
\* copy of workflow_data whose DeadlineSeed task_id is moved by i, or whose
\* seeds are modified with offset i when SeedMode is not "fixed".
prepare_batch_prompt ==
    /\ main_pc = "running"
    /\ Len(prepared) >= 1
    /\ batch_mode /\ chunk_size > 1
    /\ Len(prepared) < chunk_size
    /\ LET i == Len(prepared)
           has_deadline_seeds == workflow_data.has_deadline_seed
           generic == runs_generic_pass(has_deadline_seeds)
                          /\ seed_mode # "fixed"
       IN  \E new_seed \in
                 IF generic
                 THEN modify_workflow_seeds(workflow_data, i, seed_mode)
                 ELSE {workflow_data.seed} :
              prepared' = Append(prepared,
                     [workflow |->
                          [workflow_data EXCEPT
                              !.ds_task_id = IF has_deadline_seeds
                                             THEN @ + i ELSE @,
                              !.seed = new_seed],
                      injected |-> has_deadline_seeds,
                      generic |-> generic,
                      seed_before |-> workflow_data.seed,
                      offset |-> i])
    /\ UNCHANGED <<core, progress, ports, polling, setup, seed_mode,
                   current_task_id, workflow_data, workflow_file, job_seeds>>

NextSeed ==
    \/ load_and_validate_workflow
    \/ prepare_batch_prompt

SpecSeed == InitSeed /\ [][NextSeed]_vars

\* ------------------------------------------- polls that fail, and Cleanup
\* How a GET of the history can fail: an answer that is neither 200 nor
\* 404, a 404, an exception of urlopen that is no HTTPError, a body that
\* json.loads rejects.
PollFailures == {"status", "not_found", "raised", "unparsable"}

\* A variant in which an exception of the request ends the task.
poll_failure_reasons_fatal(failure) ==
    IF failure = "raised" THEN {"poll"} ELSE {}

\* The FailRender calls _poll_prompt_status and _check_for_missed_prompts
\* make for a failed poll: every branch and both except clauses only log.
poll_failure_reasons(failure) == {}

\* _poll_prompt_status when the request fails: it returns False, and the
\* loop sleeps and goes round.
poll_prompt_status_failed ==
    /\ PollGuard
    /\ \E failure \in PollFailures :
          /\ fail_reasons' = fail_reasons \cup poll_failure_reasons(failure)
          /\ sub_pc' = IF poll_failure_reasons(failure) = {}
                       THEN sub_pc ELSE "after"
    /\ poll_failed' = "prompt_history"
    /\ UNCHANGED <<progress, ports, seeding, setup, poll_ignored, hist_error,
                   cfg, track, flags, signal_count, outv, q_i, p_new, p_tmp,
                   p_id, m_timeout, worker, ghost, logq, prompts_executed,
                   task_completed, thread_running, main_pc>>

\* _check_for_missed_prompts when the request for the full history fails.
check_for_missed_prompts_failed ==
    /\ sub_pc = "loop"
    /\ thread_running
    /\ ~task_completed
    /\ prompt_id = NoPrompt
    /\ ~AllPromptsCompleted(prompts_executed, chunk_size)
    /\ \E failure \in PollFailures :
          /\ fail_reasons' = fail_reasons \cup poll_failure_reasons(failure)
          /\ sub_pc' = IF poll_failure_reasons(failure) = {}
                       THEN sub_pc ELSE "after"
    /\ poll_failed' = "full_history"
    /\ UNCHANGED <<progress, ports, seeding, setup, poll_ignored, hist_error,
                   cfg, track, flags, signal_count, outv, q_i, p_new, p_tmp,
                   p_id, m_timeout, worker, ghost, logq, prompts_executed,
                   task_completed, thread_running, main_pc>>

\* A task outside the distributed roles whose polls can fail and whose
\* plugin object Deadline can clean up while the submit thread runs.
InitMonitor == Init /\ ~worker_mode /\ ~distributed_mode

NextMonitor ==
    \/ Next
    \/ poll_prompt_status_failed
    \/ check_for_missed_prompts_failed
    \/ Cleanup
    \/ monitor_stopped

SpecMonitor == InitMonitor /\ [][NextMonitor]_vars

\* ---------------------------------------------------------- pre-task setup
\* Where the output directory comes from (JobOutputDirectory of the job,
\* DefaultOutputDirectory of the plugin configuration, or ComfyUI's own
\* output folder) and what os.path.exists and os.makedirs find there.
OutputDirs ==
    [kind : {"custom", "configured", "comfyui"},
     state : {"present", "creatable", "uncreatable"},
     custom_output_dir_specified : {FALSE}]

\* A task whose PreRenderTasks is followed statement by statement.
InitSetup ==
    /\ worker_mode \in BOOLEAN
    /\ distributed_mode \in BOOLEAN
    /\ chunk_size = 1
    /\ batch_mode = FALSE
    /\ prompts_executed = 0
    /\ main_pc = "constructed"
    /\ InitTracking
    /\ InitProgressValue
    /\ InitPortsIdle
    /\ InitSeedingIdle
    /\ InitPollingIdle
    /\ setup_pc = "start"
    /\ output_dir \in OutputDirs
    /\ InitSubmissionIdle
    /\ InitPlaceholderIdle

\* PreRenderTasks: _setup_batch_processing.
setup_batch_processing ==
    /\ main_pc = "constructed"
    /\ setup_pc = "start"
    /\ setup_pc' = "output"
    /\ \E cfg_batch \in BOOLEAN, cfg_chunk \in 1..MaxChunk :
          /\ batch_mode' = cfg_batch
          /\ chunk_size' = IF cfg_batch THEN cfg_chunk ELSE 1
    /\ prompts_executed' = 0
    /\ UNCHANGED <<progress, ports, seeding, polling, output_dir, submission,
                   placeholder, cfg, track,
                   workflow_submitted, server_started, use_existing_comfyui,
                   host, outv, subv, worker, ghost, logq, task_completed,
                   thread_running, main_pc>>

\* PreRenderTasks: _setup_output_directory.  A directory that is missing is
\* made by _create_directory, whose except clause logs a warning when
\* os.makedirs raises and returns normally.
setup_output_directory ==
    /\ setup_pc = "output"
    /\ setup_pc' = "temp"
    /\ output_dir' =
           [output_dir EXCEPT
               !.custom_output_dir_specified = (output_dir.kind = "custom"),
               !.state = IF @ = "creatable" THEN "present" ELSE @]
    /\ UNCHANGED <<core, progress, ports, seeding, polling, submission,
                   placeholder>>

\* PreRenderTasks: _setup_temp_directory.  An exception of
\* CreateTempDirectory reaches the except clause of PreRenderTasks, which
\* raises ComfyUIError: the task is aborted.
setup_temp_directory ==
    /\ setup_pc = "temp"
    /\ \E created \in BOOLEAN :
          setup_pc' = IF created THEN "port" ELSE "raised"
    /\ UNCHANGED <<core, progress, ports, seeding, polling, output_dir,
                   submission, placeholder>>

\* PreRenderTasks: _calculate_comfyui_port (_determine_final_port), then
\* task_completed = False.
setup_comfyui_port ==
    /\ setup_pc = "port"
    /\ setup_pc' = "done"
    /\ main_pc' = "prerendered"
    /\ \E force_new_instance \in BOOLEAN, port_busy \in BOOLEAN :
          LET reuse == ~RequiresIsolation(force_new_instance) /\ port_busy
          IN  /\ use_existing_comfyui' = reuse
              /\ server_started' = (server_started \/ reuse)
    /\ task_completed' = FALSE
    /\ UNCHANGED <<progress, ports, seeding, polling, output_dir, submission,
                   placeholder, cfg, track,
                   chunk_size, batch_mode, workflow_submitted, host, outv,
                   subv, worker, ghost, logq, prompts_executed, thread_running>>

NextSetup ==
    \/ setup_batch_processing
    \/ setup_output_directory
    \/ setup_temp_directory
    \/ setup_comfyui_port
    \/ RenderArgument

SpecSetup == InitSetup /\ [][NextSetup]_vars

\* ------------------------------------------ the monitor under fair polling
\* A prompt leaves the worker's queue without ever getting a history entry:
\* another client deletes it from the queue (POST /queue) or its entry from
\* the history (POST /history), so GET /history/<id> keeps answering {}.
WorkerDropsPrompt ==
    /\ w_done < w_accepted
    /\ w_done' = w_done + 1
    /\ UNCHANGED <<aux, cfg, track, flags, host, outv, subv, w_accepted, hist,
                   foreign_n, ghost, logq, prompts_executed, task_completed,
                   thread_running, main_pc>>

NextSweep == Next \/ WorkerDropsPrompt

\* Both threads keep running: the loop polls every DEFAULT_POLLING_INTERVAL
\* seconds and acts on what it finds, and Deadline delivers every line to
\* its handler.  The ceiling of DEFAULT_TIMEOUT seconds need not be reached.
FairSweep ==
    /\ WF_vars(monitor_workflow_execution)
    /\ WF_vars(monitor_task_completed)
    /\ WF_vars(handle_prompt_completion)
    /\ WF_vars(handle_prompt_completion_add)
    /\ WF_vars(handle_prompt_completion_store)
    /\ WF_vars(handle_prompt_completion_finish)
    /\ WF_vars(handle_prompt_error)
    /\ WF_vars(check_for_missed_prompts)
    /\ WF_vars(HandleStdoutPromptExecuted)
    /\ WF_vars(handle_stdout_prompt_completion_add)
    /\ WF_vars(handle_stdout_prompt_completion_store)
    /\ WF_vars(handle_stdout_prompt_completion_finish)

SpecSweep == InitMonitor /\ [][NextSweep]_vars /\ FairSweep

\* ------------------------------------ history entries with an error status
\* The worker finishes the oldest prompt of its queue with an execution
\* error: the entry it writes has an 'outputs' field (the outputs of the
\* nodes that ran, {} when none did) and a status whose status is 'error'.
WorkerFinishWithError ==
    /\ w_done < w_accepted
    /\ \E kind \in {"outputs", "empty"} :
          hist' = [hist EXCEPT ![w_done + 1] = kind]
    /\ hist_error' = [hist_error EXCEPT ![w_done + 1] = TRUE]
    /\ w_done' = w_done + 1
    /\ logq' = IF use_existing_comfyui THEN logq ELSE logq + 1
    /\ UNCHANGED <<progress, ports, seeding, setup, poll_failed, poll_ignored,
                   cfg, track, flags, host, outv, subv, w_accepted, foreign_n,
                   ghost, prompts_executed, task_completed, thread_running,
                   main_pc>>

\* _poll_prompt_status -> process_history_data returning False without
\* having done anything: the identifier is not in the answer, or
\* _handle_prompt_completion finds "not outputs".  The elif on 'status' is
\* not reached when the entry has an 'outputs' field.
process_history_data_ignored ==
    /\ PollGuard
    /\ hist[prompt_id] \in {"absent", "empty"}
    /\ poll_ignored' = prompt_id
    /\ UNCHANGED <<core, progress, ports, seeding, setup, poll_failed,
                   hist_error>>

NextHistory ==
    \/ Next
    \/ WorkerFinishWithError
    \/ process_history_data_ignored

SpecHistory == InitMonitor /\ [][NextHistory]_vars

\* ------------------------------------------------- probes that can raise
\* The ports at which socket.socket or connect_ex may raise: the first port
\* of the default search range, its last port, and the port after it.
ProbeErrorPorts ==
    {DEFAULT_PORT, DEFAULT_PORT + MAX_PORT_SEARCH_RANGE - 1,
     DEFAULT_PORT + MAX_PORT_SEARCH_RANGE}

\* One Deadline worker process on a host where probes of some ports raise.
InitProbe ==
    /\ worker_mode = FALSE
    /\ distributed_mode = FALSE
    /\ chunk_size = 1
    /\ batch_mode = FALSE
    /\ prompts_executed = 0
    /\ main_pc = "constructed"
    /\ InitTracking
    /\ InitProgressValue
    /\ InitSeedingIdle
    /\ InitPollingIdle
    /\ InitSetupIdle
    /\ listening \in Occupancies
    /\ inst \in [{1} -> FreshInstances]
    /\ probe_errors \in SUBSET ProbeErrorPorts

SpecProbe == InitProbe /\ [][NextPort]_vars

\* --------------------------------------------- the tasks of one batch job
\* The task has prepared all its prompts; Deadline gives the plugin another
\* task of the same job.  The seeds sent are kept, and the workflow is read
\* from the job's file again.
next_task_of_job ==
    /\ main_pc = "running"
    /\ Len(prepared) = (IF batch_mode THEN chunk_size ELSE 1)
    /\ \E next_id \in TaskIds :
          /\ next_id # current_task_id
          /\ \A sent \in job_seeds : sent.task_id # next_id
          /\ current_task_id' = next_id
    /\ job_seeds' = job_seeds \cup
           {[task_id |-> current_task_id, index |-> k - 1,
             seed |-> prepared[k].workflow.seed] : k \in 1..Len(prepared)}
    /\ workflow_data' = workflow_file
    /\ prepared' = <<>>
    /\ UNCHANGED <<core, progress, ports, polling, setup, seed_mode,
                   workflow_file>>

NextJob ==
    \/ load_and_validate_workflow
    \/ prepare_batch_prompt
    \/ next_task_of_job

SpecJob == InitSeed /\ [][NextJob]_vars

\* ------------------------------------------------ a job and all its tasks
MaxBatch == 6

\* Python's min(a, b) for integers.
IntMin(a, b) == IF a <= b THEN a ELSE b

\* The submitter node is given batch_count and chunk_size (both at least 1).
InitSubmit ==
    /\ worker_mode = FALSE
    /\ distributed_mode = FALSE
    /\ chunk_size = 1
    /\ batch_mode = FALSE
    /\ prompts_executed = 0
    /\ main_pc = "constructed"
    /\ InitTracking
    /\ InitProgressValue
    /\ InitPortsIdle
    /\ InitSeedingIdle
    /\ InitPollingIdle
    /\ setup_pc = "start"
    /\ output_dir = [kind |-> "comfyui", state |-> "present",
                     custom_output_dir_specified |-> FALSE]
    /\ job_config \in [batch_count : 1..MaxBatch, chunk_size : 1..MaxChunk]
    /\ job_info = <<>>
    /\ frames_left = 0
    /\ task_frames = 0
    /\ prompts_queued = 0
    /\ InitPlaceholderIdle

\* _create_job_info_file and _create_plugin_info_file: Frames=0-(N-1) and
\* ChunkSize=k with BatchMode=True when batch_count > 1, else Frames=0 and
\* ChunkSize=1 without BatchMode.  Deadline makes the job's tasks of them.
create_submission_files ==
    /\ job_info = <<>>
    /\ job_info' =
           IF job_config.batch_count > 1
           THEN [Frames |-> job_config.batch_count,
                 ChunkSize |-> job_config.chunk_size,
                 BatchMode |-> TRUE]
           ELSE [Frames |-> 1, ChunkSize |-> 1, BatchMode |-> FALSE]
    /\ frames_left' = IF job_config.batch_count > 1
                      THEN job_config.batch_count ELSE 1
    /\ UNCHANGED <<core, progress, ports, seeding, polling, setup_pc,
                   output_dir, placeholder, job_config, task_frames,
                   prompts_queued>>

\* Deadline gives a worker the next task of the job, the next ChunkSize
\* frames or the frames that are left, and the plugin runs
\* _setup_batch_processing: chunk_size is the job's ChunkSize.
setup_batch_processing_of_task ==
    /\ job_info # <<>>
    /\ task_frames = 0
    /\ frames_left > 0
    /\ task_frames' = IntMin(job_info.ChunkSize, frames_left)
    /\ frames_left' = frames_left - IntMin(job_info.ChunkSize, frames_left)
    /\ batch_mode' = job_info.BatchMode
    /\ chunk_size' = IF job_info.BatchMode THEN job_info.ChunkSize ELSE 1
    /\ prompts_executed' = 0
    /\ UNCHANGED <<progress, ports, seeding, polling, setup_pc, output_dir,
                   placeholder, job_config, job_info, prompts_queued, cfg, track,
                   workflow_submitted, server_started, use_existing_comfyui,
                   host, outv, subv, worker, ghost, logq, task_completed,
                   thread_running, main_pc>>

\* queue_workflow of that task when the worker accepts every prompt: the
\* initial prompt, and in batch mode one more for each i of
\* range(1, chunk_size).
queue_workflow_of_task ==
    /\ task_frames > 0
    /\ prompts_queued' = prompts_queued + 1
           + (IF batch_mode /\ chunk_size > 1 THEN chunk_size - 1 ELSE 0)
    /\ task_frames' = 0
    /\ UNCHANGED <<core, progress, ports, seeding, polling, setup_pc,
                   output_dir, placeholder, job_config, job_info, frames_left>>

NextSubmit ==
    \/ create_submission_files
    \/ setup_batch_processing_of_task
    \/ queue_workflow_of_task

SpecSubmit == InitSubmit /\ [][NextSubmit]_vars

\* ------------------------------------------------ the placeholder process
\* max_wait of the script of _get_dummy_script, one second per pass.
DUMMY_MAX_WAIT == 600
DEFAULT_TIMEOUT == 6000

\* Time passes while the task runs, read here every DUMMY_MAX_WAIT seconds
\* up to the ceiling of the monitor.  The script does not outlive its
\* max_wait passes of time.sleep(1).
clock_tick ==
    /\ main_pc = "running"
    /\ elapsed < DEFAULT_TIMEOUT
    /\ ~(use_existing_comfyui /\ ~dummy_exited /\ elapsed >= DUMMY_MAX_WAIT)
    /\ elapsed' = elapsed + DUMMY_MAX_WAIT
    /\ UNCHANGED <<core, progress, ports, seeding, polling, setup_pc,
                   output_dir, submission, dummy_exited>>

\* The script started by the command of _create_dummy_command has made its
\* max_wait passes and ends; the only thing it reads is the environment
\* variable it prints.
dummy_script_exits ==
    /\ main_pc = "running"
    /\ use_existing_comfyui
    /\ ~dummy_exited
    /\ elapsed >= DUMMY_MAX_WAIT
    /\ dummy_exited' = TRUE
    /\ UNCHANGED <<core, progress, ports, seeding, polling, setup_pc,
                   output_dir, submission, elapsed>>

\* The actions of Next do not read the clock: the monitor may give up at
\* any moment, as in Spec.
NextPlaceholder ==
    \/ Next
    \/ clock_tick
    \/ dummy_script_exits

SpecPlaceholder == InitMonitor /\ [][NextPlaceholder]_vars

\* ------------------------------------- tasks run one after another
\* PostRenderTasks of a task that was reported complete; Deadline then gives
\* the same plugin object the next task of the job.  PostRenderTasks only
\* waits and logs: no field of the plugin object is written, and
\* _initialize_member_variables is not run again.  What belongs to the task
\* that is over starts afresh: its thread has returned, its worker process
\* is gone, nothing has been reported for the new task, and the prompts of
\* the new task are numbered from 1 again.
PostRenderTasks ==
    /\ main_pc = "running"
    /\ out_pc = "idle"
    /\ sub_pc = "done"
    /\ task_completed
    /\ fail_reasons = {}
    /\ current_task_id < MaxTaskId
    /\ current_task_id' = current_task_id + 1
    /\ main_pc' = "constructed"
    /\ sub_pc' = "none"
    /\ q_i' = 0
    /\ m_timeout' = FALSE
    /\ signal_count' = 0
    /\ w_accepted' = 0
    /\ w_done' = 0
    /\ hist' = [i \in Ids |-> "absent"]
    /\ foreign_n' = 0
    /\ logq' = 0
    /\ poll_credit' = [i \in Ids |-> 0]
    /\ log_credit' = [i \in Ids |-> 0]
    /\ anon' = 0
    /\ submit_threads' = 0
    /\ UNCHANGED <<progress, ports, polling, setup, seed_mode, workflow_data,
                   prepared, workflow_file, job_seeds, cfg, track, flags,
                   fail_reasons, outv, p_new, p_tmp, p_id, prompts_executed,
                   task_completed, thread_running>>

NextTasks ==
    \/ Next
    \/ PostRenderTasks

SpecTasks == InitMonitor /\ [][NextTasks]_vars

\* ---------------------------------------------------------------- claims
\* Neither thread is inside a completion handler.
Quiescent ==
    /\ out_pc \in {"idle", "keepalive"}
    /\ sub_pc \notin {"p_add", "p_store", "p_check"}

\* All chunk_size prompts of the chunk were accepted by the worker.
FullySubmitted ==
    /\ sub_pc \notin {"none", "start", "queue0", "batch"}
    /\ Len(prompt_ids) = chunk_size

SubmittedIds == {prompt_ids[i] : i \in 1..Len(prompt_ids)}

Credits(id) == poll_credit[id] + log_credit[id]

\* C1: under every interleaving of the two completion handlers, no prompt
\* identifier has prompts_executed incremented on its behalf more than once.
C1_IncrementedAtMostOnce == \A id \in Ids : Credits(id) <= 1

\* C2: while one prompt only has finished on the worker, so that every
\* completion signal delivered so far (by the log stream, by the poll, or by
\* both in either order) is a signal of that one prompt, prompts_executed is
\* what a single delivery makes it: it does not exceed 1.
C2_DuplicateSignalIdempotent ==
    (Quiescent /\ w_done = 1 /\ hist[1] = "outputs") => prompts_executed <= 1

\* C3: after every mutation by a completion, an error or a reset,
\* prompts_executed equals the size of the completed-identifier set.
C3_CounterEqualsCompletedSet ==
    Quiescent => prompts_executed = Cardinality(completed_prompts)

\* C4: prompts_executed never exceeds chunk_size.
C4_CounterWithinChunk == prompts_executed <= chunk_size

\* C5: outside the distributed-worker role the scheduler-completion call is
\* made at most once, and exactly once by the time the monitor has returned
\* from a COMPLETE chunk.
C5_CompletionSignalledOnce ==
    ~(worker_mode /\ distributed_mode) =>
        /\ signal_count <= 1
        /\ (task_completed /\ sub_pc = "done") => signal_count = 1

\* C6: in the distributed-worker role the scheduler-completion call is never
\* made, a COMPLETE chunk has a thread in the keep-alive loop, and a thread
\* in the keep-alive loop stays there.
C6_DistributedWorkerKeepsAlive ==
    [][(worker_mode /\ distributed_mode) =>
          /\ signal_count' = 0
          /\ task_completed' =>
                (out_pc' = "keepalive" \/ sub_pc' = "keepalive")
          /\ out_pc = "keepalive" => out_pc' = "keepalive"
          /\ sub_pc = "keepalive" => sub_pc' = "keepalive"]_vars

\* C6 witness: a distributed worker whose chunk is COMPLETE, with a thread
\* in the keep-alive loop while more "Prompt executed" lines wait.
C6_Witness ==
    /\ worker_mode /\ distributed_mode
    /\ task_completed
    /\ prompts_executed >= chunk_size
    /\ sub_pc = "keepalive"
    /\ logq > 0

\* C7: the chunk is COMPLETE exactly when prompts_executed = chunk_size.
C7_CompleteIffCounterAtTarget ==
    Quiescent => (task_completed <=> prompts_executed = chunk_size)

\* The increments made so far: n by the poll channel and m by the log
\* channel, each for an identifier of its own.
CountedBy(n, m) ==
    /\ Cardinality({id \in Ids : poll_credit[id] = 1}) = n
    /\ Cardinality({id \in Ids : log_credit[id] = 1}) = m
    /\ \A id \in Ids : Credits(id) <= 1
    /\ anon = 0

\* C8: with chunk size 3 and three prompts that all finished with outputs,
\* once two were counted by the poll channel and one by the log-stream
\* channel, all three distinct, the chunk is COMPLETE with
\* prompts_executed = 3.
C8_TwoByPollOneByLog ==
    (Quiescent /\ chunk_size = 3 /\ CountedBy(2, 1)
        /\ \A id \in 1..3 : hist[id] = "outputs") =>
        (prompts_executed = 3 /\ task_completed)

\* C9: with chunk size 1, once the poll channel has reported a prompt error
\* the task is failed, the monitor loop is left, and the task is neither
\* COMPLETE nor reported complete.
C9_SinglePromptErrorFails ==
    (chunk_size = 1 /\ "prompt_error" \in fail_reasons) =>
        /\ sub_pc \in {"after", "done"}
        /\ ~task_completed
        /\ signal_count = 0

\* Exactly one prompt of the chunk ended in error and every other one
\* finished with outputs.
OneErrorOthersComplete ==
    /\ Cardinality({id \in SubmittedIds : hist[id] = "error"}) = 1
    /\ \A id \in SubmittedIds : hist[id] \in {"error", "outputs"}

\* C10: with chunk size > 1, when one prompt of a fully submitted chunk
\* errored, the others completed, and every one of them is in the
\* completed set, the chunk is COMPLETE with prompts_executed = chunk_size.
C10_ErroredPromptCounted ==
    (Quiescent /\ chunk_size > 1 /\ FullySubmitted /\ OneErrorOthersComplete
        /\ SubmittedIds \subseteq completed_prompts) =>
        (prompts_executed = chunk_size /\ task_completed)

\* C11: once the only finished prompt (prompt 1, with outputs) has been
\* marked completed and its log line has been consumed, the progress state
\* is the one a single delivery leaves, whichever channel came first: one
\* increment, for prompt 1, and no other identifier marked.
C11_ChannelsCommute ==
    (Quiescent /\ w_done = 1 /\ hist[1] = "outputs" /\ logq = 0
        /\ 1 \in completed_prompts) =>
        /\ prompts_executed = 1
        /\ completed_prompts = {1}
        /\ anon = 0
        /\ \A id \in Ids \ {1} : Credits(id) = 0

\* C12: after an in-progress signal of percent p, the percent reported is
\* min(99, (prompts_executed * 100 + p) / chunk_size) while
\* prompts_executed < chunk_size, and 100 is reported only when
\* prompts_executed = chunk_size.
C12_ReportedPercent ==
    progress_input # -1 =>
        /\ prompts_executed < chunk_size =>
              FracEq(progress_value,
                     PyMin(<<99, 1>>,
                           <<prompts_executed * 100 + progress_input,
                             chunk_size>>))
        /\ FracEq(progress_value, <<100, 1>>) =>
              prompts_executed = chunk_size

\* Process p runs its port arbitration in this step.
Arbitrates(p) == inst[p].pc = "idle" /\ inst'[p].pc = "prerendered"

\* C13: an arbitration that decides to launch a new instance never selects
\* a port on which the probe finds a listener at that moment.
C13_NeverSelectsPortInUse ==
    [][\A p \in DOMAIN inst :
          (Arbitrates(p) /\ ~inst'[p].use_existing_comfyui) =>
              ~is_port_in_use(inst'[p].comfyui_port, listening)]_vars

\* C14: in worker or distributed role the search starts at
\* base_port + 100 + T, T the id of the task being set up (base_port + 100
\* when the id text cannot be parsed), and that port is selected unless it
\* is occupied.
C14_WorkerPortFromTaskId ==
    [][\A p \in DOMAIN inst :
          (Arbitrates(p)
              /\ (inst[p].role.worker_mode \/ inst[p].role.distributed_mode))
          =>
          LET base == base_port(inst[p].cuda_device_id)
              expected == IF inst[p].env_task_id = EnvUnparsable
                          THEN base + WORKER_PORT_OFFSET
                          ELSE base + WORKER_PORT_OFFSET + inst'[p].task_id
          IN  /\ inst'[p].start_port = expected
              /\ ~is_port_in_use(expected, listening) =>
                     inst'[p].comfyui_port = expected]_vars

RequiresLaunch(role) ==
    role.worker_mode \/ role.distributed_mode \/ role.force_new_instance

\* C15: an arbitration reuses an instance exactly when no isolation flag is
\* set and something listens on base_port; it then adopts base_port, and
\* the task runs the placeholder command instead of launching a worker.
\* With an isolation flag the task always launches a new instance.
C15_ReuseOnlyWithoutIsolation ==
    [][\A p \in DOMAIN inst :
          /\ Arbitrates(p) =>
                /\ inst'[p].use_existing_comfyui <=>
                      (~RequiresLaunch(inst[p].role)
                          /\ is_port_in_use(base_port(inst[p].cuda_device_id),
                                            listening))
                /\ inst'[p].use_existing_comfyui =>
                      inst'[p].comfyui_port =
                          base_port(inst[p].cuda_device_id)
          /\ inst'[p].launched = "dummy" => inst'[p].use_existing_comfyui
          /\ inst'[p].launched = "worker" =>
                ~inst'[p].use_existing_comfyui
          /\ inst'[p].pc \in {"starting", "running"} =>
                inst'[p].launched # "none"]_vars

\* C15 witness: a task without isolation flags, bound to a CUDA device,
\* runs the placeholder command against the instance found on its base
\* port.
C15_Witness ==
    /\ inst # <<>>
    /\ inst[1].launched = "dummy"
    /\ ~RequiresLaunch(inst[1].role)
    /\ inst[1].cuda_device_id # NoGpu
    /\ inst[1].comfyui_port = base_port(inst[1].cuda_device_id)
    /\ inst[1].comfyui_port \in listening

\* Process p has arbitrated the port of the task it is running.
HasPort(p) == inst[p].pc # "idle"

IsWorkerRole(role) == role.worker_mode \/ role.distributed_mode

\* C16: two worker-role tasks with distinct task ids and the same base
\* port, arbitrating and launching concurrently on one host, never hold the
\* same selected port.
C16_ConcurrentWorkersDistinctPorts ==
    \A p \in DOMAIN inst, q \in DOMAIN inst :
        (p # q /\ HasPort(p) /\ HasPort(q)
            /\ IsWorkerRole(inst[p].role) /\ IsWorkerRole(inst[q].role)
            /\ inst[p].cuda_device_id = inst[q].cuda_device_id
            /\ inst[p].task_id # inst[q].task_id)
        => inst[p].comfyui_port # inst[q].comfyui_port

\* C17: two instances bound to different CUDA devices, each with the
\* candidate port its role and its own task id give, never have the same
\* candidate port.
C17_GpuCandidatesDistinct ==
    \A p \in DOMAIN inst, q \in DOMAIN inst :
        (p # q /\ HasPort(p) /\ HasPort(q)
            /\ inst[p].cuda_device_id # NoGpu
            /\ inst[q].cuda_device_id # NoGpu
            /\ inst[p].cuda_device_id # inst[q].cuda_device_id
            /\ \A r \in {p, q} :
                  inst[r].start_port =
                      candidate_port(inst[r].role, inst[r].cuda_device_id,
                                     inst[r].task_id))
        => inst[p].start_port # inst[q].start_port

\* C18: every prepared submission whose seed went through the generic pass
\* carries the seed the policy prescribes for seed s and offset o: s for
\* SeedMode fixed and for auto with control fixed, s + o for auto with
\* control increment, missing or unknown, max(0, s - o) for auto with
\* control decrement.
C18_SeedMutationDeterministic ==
    \A k \in 1..Len(prepared) :
        LET s == prepared[k].seed_before
            o == prepared[k].offset
            after == prepared[k].workflow.seed
            control == prepared[k].workflow.control
        IN  /\ seed_mode = "fixed" => after = s
            /\ (prepared[k].generic /\ seed_mode = "auto") =>
                  /\ control = "fixed" => after = s
                  /\ control \in {"increment", "missing", "other"} =>
                        after = s + o
                  /\ control = "decrement" =>
                        after = (IF s - o > 0 THEN s - o ELSE 0)

\* C18 witness: a decrement whose offset exceeds the seed, floored at 0.
C18_Witness ==
    /\ seed_mode = "auto"
    /\ \E k \in 1..Len(prepared) :
          /\ prepared[k].generic
          /\ prepared[k].workflow.control = "decrement"
          /\ prepared[k].seed_before < prepared[k].offset
          /\ prepared[k].workflow.seed = 0

\* C19: no prepared submission, prompt 0 or additional, had both the
\* DeadlineSeed injection and the generic seed pass applied: with a
\* DeadlineSeed node only the injection is applied and the sampler seed is
\* left alone, without one no injection is made.
C19_SeedingStrategiesExclusive ==
    \A k \in 1..Len(prepared) :
        /\ ~(prepared[k].injected /\ prepared[k].generic)
        /\ prepared[k].workflow.has_deadline_seed =>
              /\ prepared[k].injected
              /\ ~prepared[k].generic
              /\ prepared[k].workflow.seed = prepared[k].seed_before
              /\ prepared[k].workflow.ds_task_id = current_task_id + k - 1
        /\ ~prepared[k].workflow.has_deadline_seed =>
              /\ ~prepared[k].injected
              /\ prepared[k].workflow.ds_task_id = -1

\* C19 witness: a chunk of at least two prompts of a workflow with a
\* DeadlineSeed node, prepared under a SeedMode that would change seeds.
C19_Witness ==
    /\ seed_mode = "auto"
    /\ Len(prepared) >= 2
    /\ prepared[2].workflow.has_deadline_seed
    /\ prepared[2].injected
    /\ prepared[2].workflow.control = "increment"

\* C20: nothing is submitted before the submission of prompt 0; when that
\* submission fails the task is failed, no prompt at all has been
\* accepted, and the submit thread has ended without monitoring; a chunk
\* with accepted prompts never carries that failure.
C20_FirstPromptFailureIsFatal ==
    /\ sub_pc \in {"none", "start", "queue0"} => w_accepted = 0
    /\ "queue" \in fail_reasons =>
          /\ w_accepted = 0
          /\ prompt_ids = <<>>
          /\ sub_pc = "done"
          /\ ~m_timeout
    /\ w_accepted >= 1 => "queue" \notin fail_reasons

\* C20 witness: the first submission of a chunk of several prompts failed.
C20_Witness ==
    /\ "queue" \in fail_reasons
    /\ batch_mode /\ chunk_size > 1
    /\ w_accepted = 0
    /\ sub_pc = "done"

\* The submit thread leaves the loop of _queue_batch_prompts without the
\* worker having accepted the prompt it tried to queue.
BatchSubmissionFails ==
    /\ sub_pc = "batch"
    /\ sub_pc' # "batch"
    /\ w_accepted' = w_accepted

\* C21: when the submission of prompt k (1 <= k < chunk_size) fails, the
\* identifiers of prompts 0..k-1 stay in the tracking sequence in submission
\* order, chunk_size is not lowered, the task is not failed at that point
\* and monitoring starts; and once submission has stopped no further prompt
\* is submitted.
C21_MidChunkFailureKeepsQueued ==
    [][/\ BatchSubmissionFails =>
             /\ prompt_ids' = prompt_ids
             /\ prompt_ids = [i \in 1..q_i |-> i]
             /\ chunk_size' = chunk_size
             /\ fail_reasons' = fail_reasons
             /\ sub_pc' = "monitor"
       /\ sub_pc \notin {"none", "start", "queue0", "batch"} =>
             w_accepted' = w_accepted]_vars

\* Submission is over and the worker accepted fewer prompts than the chunk
\* has.
UnderSubmitted ==
    /\ sub_pc \notin {"none", "start", "queue0", "batch"}
    /\ w_accepted < chunk_size

\* C22: when fewer than chunk_size prompts were accepted by the worker, the
\* chunk never becomes COMPLETE (_complete_task, which also reports 100%, is
\* never reached), whatever log-stream and poll signals arrive about the
\* submitted prompts, and a task whose submit thread has ended has failed.
C22_UnderSubmittedNeverCompletes ==
    UnderSubmitted =>
        /\ ~task_completed
        /\ signal_count = 0
        /\ sub_pc = "done" => fail_reasons # {}

\* C23: when the monitoring loop was left because the wall-clock ceiling
\* passed and the chunk is not COMPLETE, the task is failed with a timeout
\* by the time monitoring has returned; and a task failed by timeout is
\* neither COMPLETE nor reported complete to the scheduler.
C23_TimeoutFailsAndExcludesComplete ==
    /\ (m_timeout /\ sub_pc = "done" /\ ~task_completed) =>
           "timeout" \in fail_reasons
    /\ "timeout" \in fail_reasons =>
           (~task_completed /\ signal_count = 0)

\* C24: a failed poll (an answer that is not 200, a 404, a network
\* exception or an unparsable body), of the tracked prompt's history or of
\* the full history, does not fail the task, leaves prompts_executed, the
\* completed set and the tracked prompt as they are, and leaves the monitor
\* in its loop, where the poll is made again after the interval.
C24_FailedPollChangesNothing ==
    [][poll_failed' # poll_failed =>
          /\ fail_reasons' = fail_reasons
          /\ prompts_executed' = prompts_executed
          /\ completed_prompts' = completed_prompts
          /\ prompt_id' = prompt_id
          /\ current_tracking_index' = current_tracking_index
          /\ task_completed' = task_completed
          /\ sub_pc = "loop" /\ sub_pc' = "loop"]_vars

\* C24 witness: mid-chunk, with one prompt counted and tracking cleared, the
\* request for the full history has failed, and the monitor is still in its
\* loop with the task not failed.
C24_Witness ==
    /\ poll_failed = "full_history"
    /\ sub_pc = "loop"
    /\ prompts_executed = 1
    /\ chunk_size > 1
    /\ prompt_id = NoPrompt
    /\ fail_reasons = {}

\* C25: once thread_running is cleared, no request reaches the worker (no
\* prompt is accepted, no poll result is acted on or recorded as failed),
\* the steps of submission take their failure branch, and the monitor loop
\* is left the next time its condition is evaluated; the handling of an
\* answer that had already arrived is carried on, not aborted.
C25_ClearedFlagSkipsRequests ==
    [][~thread_running =>
          /\ w_accepted' = w_accepted
          /\ poll_failed' = poll_failed
          /\ sub_pc = "start" => sub_pc' \in {"start", "done"}
          /\ sub_pc = "queue0" => sub_pc' \in {"queue0", "done"}
          /\ sub_pc = "batch" => sub_pc' \in {"batch", "monitor"}
          /\ sub_pc = "loop" =>
                /\ sub_pc' \in {"loop", "after"}
                /\ UNCHANGED <<track, prompts_executed, task_completed>>
          /\ (sub_pc = "p_store" /\ sub_pc' # sub_pc) =>
                (sub_pc' = "p_check" /\ prompts_executed' = p_tmp + 1)]_vars

\* C25 witness: the flag was cleared while the poll handler was between the
\* answer and the store of prompts_executed.
C25_Witness ==
    /\ ~thread_running
    /\ sub_pc = "p_store"
    /\ p_id # NoPrompt

\* C26: when the output directory cannot be created during the pre-task
\* setup, the task is aborted before port arbitration, before the launch of
\* a process and before any prompt submission: the setup never gets to
\* _calculate_comfyui_port, and once _setup_output_directory is over
\* PreRenderTasks has raised.
C26_UncreatableOutputDirAborts ==
    output_dir.state = "uncreatable" =>
        /\ setup_pc \in {"start", "output", "raised"}
        /\ main_pc = "constructed"
        /\ sub_pc = "none"

\* C27: once the chunk is terminal (prompts_executed = chunk_size and the
\* chunk marked COMPLETE), no later log-stream or poll event changes
\* prompts_executed, the completed set or the tracking index; and at every
\* step prompts_executed does not decrease and the completed set does not
\* shrink.
C27_MonotoneThenFrozen ==
    [][/\ (task_completed /\ prompts_executed = chunk_size) =>
             UNCHANGED <<prompts_executed, completed_prompts,
                         current_tracking_index>>
       /\ prompts_executed' >= prompts_executed
       /\ completed_prompts \subseteq completed_prompts']_vars

\* C28: the chunk is COMPLETE only when chunk_size prompts of this task have
\* finished on the worker, and the log channel has credited a prompt only
\* if that prompt has finished (a line left over from a prompt the poll
\* already counted, or from no prompt of the task, is not credited to the
\* next tracked prompt).
C28_CompleteOnlyWhenAllFinished ==
    /\ task_completed => w_done >= chunk_size
    /\ \A id \in Ids : log_credit[id] > 0 => hist[id] # "absent"

\* The earliest identifier in submission order that is not in the set done,
\* or NoPrompt when every submitted identifier is in it.
EarliestUncompleted(ids, done) ==
    LET open == {i \in 1..Len(ids) : ids[i] \notin done}
    IN  IF open = {} THEN NoPrompt
        ELSE ids[CHOOSE i \in open : \A j \in open : i <= j]

\* A completion handler or the error handler has just marked a prompt and
\* advanced the tracking, with the chunk not yet at its target.
TrackingAdvanced ==
    /\ prompts_executed' < chunk_size
    /\ \/ sub_pc = "p_check" /\ sub_pc' = "loop"
       \/ out_pc = "o_fin" /\ out_pc' = "idle" /\ prompt_id # NoPrompt
       \/ sub_pc = "loop" /\ sub_pc' = "loop"
             /\ completed_prompts' # completed_prompts /\ out_pc' = out_pc

\* C29: right after a prompt was marked complete (or errored, in a chunk of
\* more than one prompt) with prompts_executed < chunk_size, the tracked
\* prompt is the earliest identifier in submission order that is not in the
\* completed set, or tracking is cleared when there is none; and while the
\* chunk is not COMPLETE and no handler is at work, the tracked prompt is
\* not in the completed set.
C29_TracksEarliestUncompleted ==
    [][/\ TrackingAdvanced =>
             prompt_id' = EarliestUncompleted(prompt_ids', completed_prompts')
       /\ (Quiescent /\ ~task_completed /\ prompt_id # NoPrompt
             /\ prompts_executed < chunk_size) =>
             prompt_id \notin completed_prompts]_vars

\* The submit thread is inside the loop of monitor_workflow_execution.
MonitorRunning == sub_pc \in {"loop", "p_add", "p_store", "p_check"}

C31_OutputsCompleteErrorHandled ==
    [][/\ poll_ignored' # poll_ignored => hist[prompt_id] = "absent"
       /\ (sub_pc = "loop" /\ sub_pc' = "p_add") => ~hist_error[prompt_id]]_vars

\* C32: additional prompt i (1 <= i < chunk_size) is made from the base
\* graph with offset i and from nothing else: its DeadlineSeed task_id is
\* the base graph's plus i, or its seed is what the seed modification gives
\* for the base graph's seed and i; preparing it leaves the base graph and
\* the graphs of the prompts prepared before it as they were.
C32_BatchPromptFromBaseCopy ==
    [][(Len(prepared) >= 1 /\ Len(prepared') = Len(prepared) + 1) =>
          LET i == Len(prepared)
              base == prepared[1].workflow
              new == prepared'[i + 1]
          IN  /\ i < chunk_size
              /\ new.offset = i
              /\ IF base.has_deadline_seed
                 THEN /\ new.workflow.ds_task_id = base.ds_task_id + i
                      /\ new.workflow.seed = base.seed
                 ELSE /\ new.workflow.ds_task_id = base.ds_task_id
                      /\ new.workflow.seed \in
                             modify_workflow_seeds(base, i, seed_mode)
              /\ workflow_data' = base
              /\ \A k \in 1..i : prepared'[k] = prepared[k]]_vars

\* C32 witness: a chunk of three with SeedMode auto and an incrementing
\* sampler; the third prompt carries the base seed plus 2, the second the
\* base seed plus 1, and the base graph is the one prompt 0 was sent with.
C32_Witness ==
    /\ Len(prepared) = 3
    /\ seed_mode = "auto"
    /\ ~workflow_data.has_deadline_seed
    /\ workflow_data.control = "increment"
    /\ current_task_id = 1
    /\ prepared[1].workflow = workflow_data
    /\ prepared[2].workflow.seed = workflow_data.seed + 1
    /\ prepared[3].workflow.seed = workflow_data.seed + 2

\* The probe of port q reports it free: nothing accepts the connection, or
\* the probe fails with an error.
ProbeReportsFree(q) == q \notin listening \/ q \in probe_errors

\* C33: the search from candidate c gives the lowest port of [c, c + 100)
\* that the probe reports free, and c itself when the probe reports all 100
\* in use; a probe that raises counts as free, and the arbitration goes on
\* to its result.
C33_LowestFreePortOrCandidate ==
    [][\A p \in DOMAIN inst :
          (/\ inst[p].pc = "idle"
           /\ inst'[p] # inst[p]
           /\ ~inst'[p].use_existing_comfyui) =>
             LET c == inst'[p].start_port
                 free == {q \in SearchRange(c) : ProbeReportsFree(q)}
             IN  /\ inst'[p].pc = "prerendered"
                 /\ inst'[p].comfyui_port =
                        IF free = {} THEN c
                        ELSE CHOOSE q \in free : \A r \in free : q <= r]_vars

\* C33 witness: all 100 ports from the candidate on accept connections and
\* the probe of the last one raises: that port is the one chosen.
C33_Witness ==
    \E p \in DOMAIN inst :
        /\ inst[p].pc = "prerendered"
        /\ ~inst[p].use_existing_comfyui
        /\ SearchRange(inst[p].start_port) \subseteq listening
        /\ inst[p].comfyui_port \in probe_errors
        /\ inst[p].comfyui_port =
               inst[p].start_port + MAX_PORT_SEARCH_RANGE - 1

\* C34: within one task the submit_workflow thread is started at most once,
\* whether RenderArgument starts it for an existing instance or
\* HandleServerStarted starts it for a launched one, and however many
\* server-start lines are handled.
C34_SubmitThreadStartedOnce == submit_threads <= 1

\* C34 witness: a launched instance whose thread was started by the first
\* server-start line and is polling; the handler of a further server-start
\* line can run in this state.
C34_Witness ==
    /\ submit_threads = 1
    /\ ~use_existing_comfyui
    /\ workflow_submitted
    /\ main_pc = "running" /\ out_pc = "idle" /\ thread_running
    /\ sub_pc = "loop"

\* The three orderings of a task that hold whatever the worker answers: the
\* worker is launched or adopted only after the port arbitration, a prompt
\* is accepted only when server_started is set, and nothing is submitted
\* once the submission has handed over to the monitor.
StepsInOrder ==
    /\ (main_pc # "running" /\ main_pc' = "running") => main_pc = "prerendered"
    /\ sub_pc' # "none" => main_pc' = "running"
    /\ w_accepted' > w_accepted => server_started
    /\ sub_pc \notin {"none", "start", "queue0", "batch"} =>
           w_accepted' = w_accepted

\* The poll loop is entered.
LoopStarts == sub_pc = "monitor" /\ sub_pc' = "loop"

\* C35 as stated: the steps of a task happen in order, and the poll loop
\* starts only after prompt 0 was accepted and the submission of every
\* prompt of the chunk was attempted (q_i is the index the batch loop has
\* reached: the prompts before it were accepted, the one at it was refused
\* if the loop broke).
C35_StepsInOrderAllAttempted ==
    [][/\ StepsInOrder
       /\ LoopStarts =>
              /\ Len(prompt_ids) >= 1
              /\ prompt_ids[1] \in 1..w_accepted
              /\ (batch_mode /\ chunk_size > 1) => q_i + 1 >= chunk_size]_vars

\* C35 amended: the steps of a task happen in order, and the poll loop
\* starts only after prompt 0 was accepted and the submission has ended:
\* every additional prompt was accepted, or one was refused, which ends the
\* submission without the later ones being attempted.
C35_StepsInOrderSubmissionEnded ==
    [][/\ StepsInOrder
       /\ LoopStarts =>
              /\ Len(prompt_ids) >= 1
              /\ prompt_ids[1] \in 1..w_accepted
              /\ Len(prompt_ids) = q_i
              /\ Len(prompt_ids) <= chunk_size
              /\ ~(batch_mode /\ chunk_size > 1) => Len(prompt_ids) = 1]_vars

\* C35 witness: a launched instance polls a chunk of three of which prompt 0
\* was accepted and prompt 1 refused; prompt 2 was never sent.
C35_Witness ==
    /\ sub_pc = "loop"
    /\ server_started /\ ~use_existing_comfyui
    /\ batch_mode /\ chunk_size = 3
    /\ prompt_ids = <<1>>
    /\ w_accepted = 1
    /\ fail_reasons = {}

\* C36: from the submission of prompt 0 on, whenever a tracked prompt is set
\* it is the one prompt_ids holds at current_tracking_index, and that index
\* is inside prompt_ids (Python indexes from 0).
C36_TrackingConsistent ==
    (sub_pc \notin {"none", "start", "queue0"} /\ prompt_id # NoPrompt) =>
        /\ current_tracking_index < Len(prompt_ids)
        /\ prompt_id = prompt_ids[current_tracking_index + 1]

\* C37: in a batch job with SeedMode auto whose sampler node has
\* control_after_generate increment, no prompt of a task is sent with the
\* seed a prompt of another task of the job was sent with.
C37_SeedsDistinctAcrossTasks ==
    (/\ batch_mode
     /\ seed_mode = "auto"
     /\ workflow_file.control = "increment"
     /\ ~workflow_file.has_deadline_seed) =>
        \A sent \in job_seeds : \A k \in 1..Len(prepared) :
            sent.task_id # current_task_id =>
                sent.seed # prepared[k].workflow.seed

\* Every task of the job has queued its prompts.
JobOver == job_info # <<>> /\ frames_left = 0 /\ task_frames = 0

\* C38: when all tasks of a job submitted with batch_count N and chunk size
\* k have queued their prompts, N prompts were queued in all, whether or
\* not k divides N.
C38_JobQueuesBatchCount ==
    JobOver => prompts_queued = job_config.batch_count

\* C39: with an existing instance, the placeholder process has not ended
\* unless the chunk is COMPLETE, the render has failed, or the ceiling of
\* DEFAULT_TIMEOUT seconds is reached: it never ends while the monitor is
\* still waiting for prompts of the chunk.
C39_PlaceholderOutlivesMonitor ==
    dummy_exited =>
        \/ task_completed
        \/ fail_reasons # {}
        \/ elapsed >= DEFAULT_TIMEOUT

\* C40: after the pre-task setup of a task that is not the first one of the
\* plugin object, the submitted flag, the tracked prompt, the completed set,
\* the counter and the server-started flag are those of a fresh task
\* (server_started set only by the adoption of an existing instance), and a
\* launched instance whose server has started has its thread started.
C40_NoStateLeakBetweenTasks ==
    /\ (current_task_id >= 1 /\ main_pc = "prerendered") =>
           /\ ~workflow_submitted
           /\ prompt_id = NoPrompt
           /\ completed_prompts = {}
           /\ prompts_executed = 0
           /\ server_started = use_existing_comfyui
    /\ (current_task_id >= 1 /\ main_pc = "running" /\ server_started) =>
           submit_threads = 1

====
